---- MODULE Spec2Model ----
(***************************************************************************)
(* A model of the personal RAG pipeline: the embedding client              *)
(* (lib/embeddings/embedding-service.ts), the similarity search function   *)
(* of the schema (search_similar_chunks), the search command, the         *)
(* ingestion command (scripts/ingest-project.ts), the knowledge base       *)
(* generator (lib/knowledge-base/generator.ts) and the text splitter of    *)
(* the code processor (lib/processors/code-processor.ts).                  *)
(*                                                                         *)
(* Seven specifications share the variables below:                         *)
(*   SpecEmbed   one call of generateEmbedding / generateBatchEmbeddings   *)
(*   SpecSearch  search commands against a populated document_chunks table *)
(*   SpecIngest  ingestion runs against the projects / document_chunks     *)
(*               tables                                                    *)
(*   SpecBatches one ingestion run over more documents than one batch      *)
(*   SpecRace    ingestion runs that create or get their project at once   *)
(*   SpecGenerate one call of generateContextFiles                         *)
(*   SpecChunk   one call of textSplitter.createDocuments([content])       *)
(***************************************************************************)
EXTENDS Integers, Sequences, FiniteSets, TLC

VARIABLES
  \* ---- EmbeddingService (one call in flight) ----
  e_pc,          \* "idle", "loop", "await", "pause", "done", "failed"
  e_mode,        \* "none", "one" (generateEmbedding), "many" (generateBatchEmbeddings)
  e_texts,       \* the caller's argument: a sequence of texts (one text for "one")
  e_i,           \* the loop variable i of generateBatchEmbeddings
  embeddings,    \* the local array `embeddings`
  requests,      \* every call of openai.embeddings.create so far, in issue order
  outstanding,   \* requests issued and not yet settled
  events,        \* trace of "req", "resp", "fail", "pause"
  e_raised,      \* the error the embeddings API raised (Null when none)
  e_result,      \* the value the call returned (Null before it returns)
  e_error,       \* the error the call threw to its caller (Null when none)
  \* ---- the store ----
  projects,          \* table projects
  document_chunks,   \* table document_chunks
  knowledge_contexts,\* table knowledge_contexts
  files,             \* context files written under knowledge-base/
  env,               \* which credentials the environment holds
  \* ---- the search command (searchProjects) ----
  s_pc,          \* "idle", "embed", "lookup", "rpc", "print", "context", "exit0", "exit1"
  s_query,       \* the query text
  s_options,     \* the command's options
  s_queryEmbedding,
  s_projectId,   \* NoId while undefined
  s_args,        \* the arguments of the last search_similar_chunks call of the command
  s_results,     \* the rows that call returned
  k_args,        \* the arguments of the generator's search_similar_chunks call
  k_results,     \* the rows the generator's call returned
  \* ---- the ingestion command (ingestProject) ----
  i_pc,          \* "idle", "lookup", "insert", "services", "code", "airtable", "loop",
                 \* "embed", "upsert", "delay", "kb", "exit0", "exit1"
  i_options,     \* the command's options
  i_repo,        \* the files git ls-files lists under the path, with their chunks
  i_project,     \* the local variable project
  processors,    \* the local array `processors`: the documents of the run
  i_i,           \* the batch loop variable i
  i_j,           \* the position of `doc` in the current batch (0-based)
  i_embedding,   \* the local variable embedding
  i_attempted,   \* documents (by position) whose embedding was requested, in order
  i_stored,      \* documents (by position) whose upsert succeeded, in order
  i_failed,      \* documents (by position) whose embedding or upsert failed
  i_logged,      \* documents (by position) reported by console.error
  i_thrown,      \* what the catch of ingestProject caught: "none", "store",
                 \* "config", "git", "read", "airtable", "kb"
  i_before,      \* the tables projects and document_chunks as the run found them
  runs,          \* ingestion runs started
  \* ---- the text splitter (one createDocuments call) ----
  c_pc,          \* "idle", "loop", "big", "tail", "return", "merge", "merge_pop", "done"
  c_text,        \* the text given to createDocuments
  c_stack,       \* the calls of _splitText in progress, innermost last
  c_merge,       \* the call of mergeSplits in progress
  c_chunks,      \* the chunks splitText returned, in order
  \* ---- ingestProject in several processes at once ----
  concurrent,    \* per process: where it is in lines 16-42, its options, its
                 \* local variable project, whether it created the project
  \* ---- the knowledge base generator (one generateContextFiles call) ----
  g_pc,          \* "idle", "received", "embedded", "searched", "grouped", "rendered",
                 \* "returned", "failed"
  g_projectId,   \* the argument projectId
  g_query,       \* the argument query (NoQuery when absent)
  g_queryEmbedding,
  relevantChunks,\* the rows the search returned
  groupedChunks, \* the object groupedChunks: its entries in insertion order
  g_content,     \* the local variable content of generateQueryContext
  g_filePath,    \* the local variable filePath
  g_steps        \* the positions the call has passed, in order

evars == <<e_pc, e_mode, e_texts, e_i, embeddings, requests, outstanding,
           events, e_raised, e_result, e_error>>

dbvars == <<projects, document_chunks, knowledge_contexts, files, env>>

svars == <<s_pc, s_query, s_options, s_queryEmbedding, s_projectId, s_args,
           s_results, k_args, k_results>>

ivars == <<i_pc, i_options, i_repo, i_project, processors, i_i, i_j, i_embedding,
           i_attempted, i_stored, i_failed, i_logged, i_thrown, i_before, runs>>

cvars == <<c_pc, c_text, c_stack, c_merge, c_chunks>>

rvars == <<concurrent>>

gvars == <<g_pc, g_projectId, g_query, g_queryEmbedding, relevantChunks,
           groupedChunks, g_content, g_filePath, g_steps>>

vars == <<evars, dbvars, svars, ivars, cvars, rvars, gvars>>

notEmbed == <<dbvars, svars, ivars, cvars, rvars, gvars>>
notSearch == <<evars, ivars, cvars, rvars, gvars>>
notIngest == <<evars, svars, cvars, rvars, gvars>>
notChunk == <<evars, dbvars, svars, ivars, rvars, gvars>>
notRace == <<evars, svars, ivars, cvars, gvars>>
notGenerate == <<evars, svars, ivars, cvars, rvars>>

Null == [null |-> TRUE]

\* An option or variable that is undefined where the code expects a number, an
\* id or a string (an empty string is as falsy as undefined).
Undefined == -1
NoId == 0
NoString == ""

Min(a, b) == IF a < b THEN a ELSE b

(***************************************************************************)
(* Bounds of the model.                                                    *)
(***************************************************************************)
MaxTexts == 250       \* longest input of generateBatchEmbeddings
NBases == 6           \* distinct text contents
MaxRows == 5          \* rows of document_chunks the search specification starts from
MaxLimit == 2         \* largest --limit given to the search command
MaxRuns == 2          \* ingestion runs in one behaviour
NPatterns == 2        \* input patterns of generateBatchEmbeddings
MaxFailures == 1      \* documents whose embedding or upsert fails in one run
MaxWords == 24        \* words, lines or paragraphs of a text given to the splitter
MaxProcs == 2         \* processes running ingestProject at once
MaxStored == 9        \* stored documents the generator is run against

(***************************************************************************)
(* Program constants.                                                      *)
(***************************************************************************)
batchSize == 100      \* embedding-service.ts:35
MaxInputChars == 8000 \* embedding-service.ts:22 and :43
chunkSize == 1000     \* code-processor.ts:25
chunkOverlap == 200   \* code-processor.ts:26

(***************************************************************************)
(* Texts.  A text is a prefix of one of NBases unbounded contents: the     *)
(* pair of the content and the number of characters kept.  Two texts are   *)
(* equal iff they are the same characters.                                 *)
(***************************************************************************)
TextLens == {0, 1, MaxInputChars - 1, MaxInputChars, MaxInputChars + 1,
             2 * MaxInputChars}

Texts == [base : 1..NBases, len : TextLens]

\* JS String.prototype.substring(start, end) for 0 <= start <= end.
Substring(text, start, end) ==
  LET e == Min(end, text.len)
      s == Min(start, e)
  IN  IF s = 0 THEN [base |-> text.base, len |-> e]
      ELSE [base |-> <<text.base, s>>, len |-> e - s]

\* JS Array.prototype.slice(start, end) for 0 <= start, on a 1-based sequence.
Slice(seq, start, end) ==
  SubSeq(seq, start + 1, Min(end, Len(seq)))

\* text.substring(0, 8000)
TruncateInputUncut(text) == text

TruncateInput(text) == Substring(text, 0, MaxInputChars)

\* batch.map(text => text.substring(0, 8000))
BatchInput(batch) == [k \in 1..Len(batch) |-> TruncateInput(batch[k])]

\* The embedding model: a deterministic function of the submitted text.
EmbeddingModel(input) == <<"vec", input.base, input.len>>

\* A successful response of openai.embeddings.create: one item per input, in
\* input order.
ResponseData(input) ==
  [k \in 1..Len(input) |-> [index |-> k - 1, embedding |-> EmbeddingModel(input[k])]]

\* The errors the embeddings endpoint raises.
ApiErrors == { [name |-> "RateLimitError", status |-> 429],
               [name |-> "APIConnectionError", status |-> 0] }

\* embeddings.push(...response.data.map(item => item.embedding))
PushAllReversed(acc, data) ==
  [k \in 1..Len(data) |-> data[k].embedding] \o acc

PushAll(acc, data) ==
  acc \o [k \in 1..Len(data) |-> data[k].embedding]

\* i += batchSize
NextOffsetSkipping(i) == i + batchSize + 1

NextOffset(i) == i + batchSize

\* if (i + batchSize < texts.length)
NeedsPauseAlways(i, n) == i < n

NeedsPause(i, n) == i + batchSize < n

(***************************************************************************)
(* The inputs of one call.                                                 *)
(***************************************************************************)
TextCounts == {0, 1, batchSize - 1, batchSize, batchSize + 1, 2 * batchSize,
               2 * batchSize + 1, MaxTexts}

LenCycle == <<MaxInputChars + 1, 1, MaxInputChars, 2 * MaxInputChars, 0,
              MaxInputChars - 1>>

\* The p-th input of n texts: neighbouring texts differ, and texts one batch
\* apart differ.
InputTexts(n, p) ==
  [k \in 1..n |-> [base |-> ((k * p) % NBases) + 1,
                   len  |-> LenCycle[((k + p) % Len(LenCycle)) + 1]]]

(***************************************************************************)
(* EmbeddingService.generateEmbedding                                      *)
(***************************************************************************)
GenerateEmbeddingCall ==
  /\ e_pc = "idle"
  /\ \E t \in Texts :
       /\ e_texts' = <<t>>
       /\ requests' = Append(requests,
            [offset |-> 0, batch |-> <<t>>, input |-> <<TruncateInput(t)>>])
  /\ e_mode' = "one"
  /\ e_pc' = "await"
  /\ outstanding' = outstanding + 1
  /\ events' = Append(events, "req")
  /\ UNCHANGED notEmbed
  /\ UNCHANGED <<e_i, embeddings, e_raised, e_result, e_error>>

GenerateEmbeddingReturn ==
  /\ e_pc = "await" /\ e_mode = "one"
  /\ outstanding' = outstanding - 1
  /\ events' = Append(events, "resp")
  /\ e_result' = ResponseData(requests[Len(requests)].input)[1].embedding
  /\ e_pc' = "done"
  /\ UNCHANGED notEmbed
  /\ UNCHANGED <<e_mode, e_texts, e_i, embeddings, requests, e_raised, e_error>>

GenerateEmbeddingThrow ==
  /\ e_pc = "await" /\ e_mode = "one"
  /\ outstanding' = outstanding - 1
  /\ events' = Append(events, "fail")
  /\ \E err \in ApiErrors : e_raised' = err /\ e_error' = err
  /\ e_pc' = "failed"
  /\ UNCHANGED notEmbed
  /\ UNCHANGED <<e_mode, e_texts, e_i, embeddings, requests, e_result>>

(***************************************************************************)
(* EmbeddingService.generateBatchEmbeddings                                *)
(***************************************************************************)
GenerateBatchEmbeddingsCall ==
  /\ e_pc = "idle"
  /\ \E n \in TextCounts, p \in 1..NPatterns : e_texts' = InputTexts(n, p)
  /\ e_mode' = "many"
  /\ e_i' = 0
  /\ embeddings' = <<>>
  /\ e_pc' = "loop"
  /\ UNCHANGED notEmbed
  /\ UNCHANGED <<requests, outstanding, events, e_raised, e_result, e_error>>

\* The loop test holds: slice the batch and await the request.
BatchRequestNoAwait ==
  /\ e_pc = "loop" /\ e_mode = "many"
  /\ e_i < Len(e_texts)
  /\ LET batch == Slice(e_texts, e_i, e_i + batchSize)
     IN  requests' = Append(requests,
           [offset |-> e_i, batch |-> batch, input |-> BatchInput(batch)])
  /\ outstanding' = outstanding + 1
  /\ events' = Append(events, "req")
  /\ e_i' = NextOffset(e_i)
  /\ UNCHANGED notEmbed
  /\ UNCHANGED <<e_pc, e_mode, e_texts, embeddings, e_raised, e_result, e_error>>

BatchRequest ==
  /\ e_pc = "loop" /\ e_mode = "many"
  /\ e_i < Len(e_texts)
  /\ LET batch == Slice(e_texts, e_i, e_i + batchSize)
     IN  requests' = Append(requests,
           [offset |-> e_i, batch |-> batch, input |-> BatchInput(batch)])
  /\ outstanding' = outstanding + 1
  /\ events' = Append(events, "req")
  /\ e_pc' = "await"
  /\ UNCHANGED notEmbed
  /\ UNCHANGED <<e_mode, e_texts, e_i, embeddings, e_raised, e_result, e_error>>

\* The request resolves: collect the vectors, then pause or go on.
BatchResponse ==
  /\ e_pc = "await" /\ e_mode = "many"
  /\ outstanding' = outstanding - 1
  /\ embeddings' = PushAll(embeddings, ResponseData(requests[Len(requests)].input))
  /\ IF NeedsPause(e_i, Len(e_texts))
       THEN /\ events' = events \o <<"resp", "pause">>
            /\ e_pc' = "pause"
            /\ e_i' = e_i
       ELSE /\ events' = Append(events, "resp")
            /\ e_pc' = "loop"
            /\ e_i' = NextOffset(e_i)
  /\ UNCHANGED notEmbed
  /\ UNCHANGED <<e_mode, e_texts, requests, e_raised, e_result, e_error>>

\* The request rejects: the catch block logs and rethrows.
BatchRejectSwallowed ==
  /\ e_pc = "await" /\ e_mode = "many"
  /\ outstanding' = outstanding - 1
  /\ events' = Append(events, "fail")
  /\ \E err \in ApiErrors : e_raised' = err
  /\ e_result' = embeddings
  /\ e_pc' = "done"
  /\ UNCHANGED notEmbed
  /\ UNCHANGED <<e_mode, e_texts, e_i, embeddings, requests, e_error>>

BatchReject ==
  /\ e_pc = "await" /\ e_mode = "many"
  /\ outstanding' = outstanding - 1
  /\ events' = Append(events, "fail")
  /\ \E err \in ApiErrors : e_raised' = err /\ e_error' = err
  /\ e_pc' = "failed"
  /\ UNCHANGED notEmbed
  /\ UNCHANGED <<e_mode, e_texts, e_i, embeddings, requests, e_result>>

\* The rate-limit delay elapses.
BatchPauseDone ==
  /\ e_pc = "pause" /\ e_mode = "many"
  /\ e_i' = NextOffset(e_i)
  /\ e_pc' = "loop"
  /\ UNCHANGED notEmbed
  /\ UNCHANGED <<e_mode, e_texts, embeddings, requests, outstanding, events,
                 e_raised, e_result, e_error>>

\* The loop test fails: return embeddings.
BatchReturn ==
  /\ e_pc = "loop" /\ e_mode = "many"
  /\ ~(e_i < Len(e_texts))
  /\ e_result' = embeddings
  /\ e_pc' = "done"
  /\ UNCHANGED notEmbed
  /\ UNCHANGED <<e_mode, e_texts, e_i, embeddings, requests, outstanding, events,
                 e_raised, e_error>>

InitEmbedIdle ==
  /\ e_pc = "idle"
  /\ e_mode = "none"
  /\ e_texts = <<>>
  /\ e_i = 0
  /\ embeddings = <<>>
  /\ requests = <<>>
  /\ outstanding = 0
  /\ events = <<>>
  /\ e_raised = Null
  /\ e_result = Null
  /\ e_error = Null

InitStoreEmpty ==
  /\ projects = {}
  /\ document_chunks = {}
  /\ knowledge_contexts = {}
  /\ files = {}
  /\ env = [OPENAI_API_KEY |-> TRUE, AIRTABLE |-> TRUE]

InitSearchIdle ==
  /\ s_pc = "idle"
  /\ s_query = Null
  /\ s_options = Null
  /\ s_queryEmbedding = Null
  /\ s_projectId = NoId
  /\ s_args = Null
  /\ s_results = Null
  /\ k_args = Null
  /\ k_results = Null

InitIngestIdle ==
  /\ i_pc = "idle"
  /\ i_options = Null
  /\ i_repo = <<>>
  /\ i_project = Null
  /\ processors = <<>>
  /\ i_i = 0
  /\ i_j = 0
  /\ i_embedding = Null
  /\ i_attempted = <<>>
  /\ i_stored = <<>>
  /\ i_failed = {}
  /\ i_logged = {}
  /\ i_thrown = "none"
  /\ i_before = [projects |-> {}, document_chunks |-> {}]
  /\ runs = 0

\* A range of positions of a text; empty when its length is 0.
Range(from, to) == [from |-> from, to |-> to]
EmptyRange == Range(1, 0)

\* One call of mergeSplits(goodSplits, ""): the next split `d`, currentDoc
\* (consecutive splits, so the range they cover, and their number), total,
\* docs, and where _splitText goes on when it returns.
NoMerge ==
  [pos |-> 0, last |-> 0, d |-> EmptyRange, currentDoc |-> EmptyRange, count |-> 0,
   total |-> 0, docs |-> <<>>, ret |-> "none"]

InitSplitterIdle ==
  /\ c_pc = "idle"
  /\ c_text = <<>>
  /\ c_stack = <<>>
  /\ c_merge = NoMerge
  /\ c_chunks = <<>>

\* No process has called ingestProject yet.
NotStarted == [pc |-> "idle", options |-> Null, project |-> Null, created |-> FALSE]

InitRaceIdle == concurrent = [p \in 1..MaxProcs |-> NotStarted]

NoQuery == [base |-> 0, len |-> 0]

InitGenerateIdle ==
  /\ g_pc = "idle"
  /\ g_projectId = NoId
  /\ g_query = NoQuery
  /\ g_queryEmbedding = Null
  /\ relevantChunks = <<>>
  /\ groupedChunks = <<>>
  /\ g_content = <<>>
  /\ g_filePath = <<>>
  /\ g_steps = <<>>

\* Everything but the embedding client, the commands and the store is idle.
InitOthersIdle == InitSplitterIdle /\ InitRaceIdle /\ InitGenerateIdle

InitEmbed ==
  InitEmbedIdle /\ InitStoreEmpty /\ InitSearchIdle /\ InitIngestIdle /\ InitOthersIdle

NextEmbed ==
  \/ GenerateEmbeddingCall
  \/ GenerateEmbeddingReturn
  \/ GenerateEmbeddingThrow
  \/ GenerateBatchEmbeddingsCall
  \/ BatchRequest
  \/ BatchResponse
  \/ BatchReject
  \/ BatchPauseDone
  \/ BatchReturn

SpecEmbed == InitEmbed /\ [][NextEmbed]_vars

(***************************************************************************)
(* Vectors.  The embedding of a text is named by the text; its coordinates *)
(* are read from a table of integer vectors of Euclidean length 20, so     *)
(* that every cosine is a multiple of 1/400.  Scores, distances and        *)
(* thresholds are counted in units of 1/10000.                             *)
(***************************************************************************)
CoordTable == << <<20, 0, 0, 0, 0>>,
                 <<19, 5, 3, 2, 1>>,
                 <<10, 10, 10, 10, 0>>,
                 <<14, 14, 2, 2, 0>>,
                 <<0, 20, 0, 0, 0>>,
                 <<-20, 0, 0, 0, 0>> >>

Coords(v) == CoordTable[((v[2] - 1) % Len(CoordTable)) + 1]

RECURSIVE DotFrom(_, _, _)
DotFrom(a, b, k) ==
  IF k > Len(a) THEN 0 ELSE a[k] * b[k] + DotFrom(a, b, k + 1)

Dot(a, b) == DotFrom(a, b, 1)

Norm(a) == CHOOSE n \in 0..Dot(a, a) : n * n <= Dot(a, a) /\ (n + 1) * (n + 1) > Dot(a, a)

\* pgvector's a <=> b: the cosine distance 1 - a.b / (|a| |b|).
CosineDistance(u, v) ==
  10000 - (10000 * Dot(Coords(u), Coords(v))) \div (Norm(Coords(u)) * Norm(Coords(v)))

\* 1 - (dc.embedding <=> query_embedding)
Similarity(u, v) == 10000 - CosineDistance(u, v)

(***************************************************************************)
(* search_similar_chunks (the SQL function of the schema).                 *)
(***************************************************************************)
\* AND 1 - (dc.embedding <=> query_embedding) > similarity_threshold
PassesThresholdOrEqual(sim, threshold) == sim >= threshold

PassesThreshold(sim, threshold) == sim > threshold

PassesFilterIgnored(row, project_filter) == TRUE

\* (project_filter IS NULL OR dc.project_id = project_filter)
PassesFilter(row, project_filter) ==
  project_filter = NoId \/ row.project_id = project_filter

\* The rows the WHERE clause keeps.
WhereRows(table, query_embedding, project_filter, similarity_threshold) ==
  {dc \in table :
     /\ PassesFilter(dc, project_filter)
     /\ PassesThreshold(Similarity(dc.embedding, query_embedding), similarity_threshold)}

\* ORDER BY dc.embedding <=> query_embedding: the rows that may come first.
FirstByDistanceFarthest(rows, query_embedding) ==
  {r \in rows : \A o \in rows :
     CosineDistance(r.embedding, query_embedding) >= CosineDistance(o.embedding, query_embedding)}

FirstByDistance(rows, query_embedding) ==
  {r \in rows : \A o \in rows :
     CosineDistance(r.embedding, query_embedding) <= CosineDistance(o.embedding, query_embedding)}

\* Every order ORDER BY may produce (rows at equal distance come in any order).
RECURSIVE OrderByDistance(_, _)
OrderByDistance(rows, query_embedding) ==
  IF rows = {} THEN {<<>>}
  ELSE UNION { { <<r>> \o rest : rest \in OrderByDistance(rows \ {r}, query_embedding) } :
               r \in FirstByDistance(rows, query_embedding) }

\* LIMIT match_count
Limit(seq, match_count) == SubSeq(seq, 1, Min(match_count, Len(seq)))

\* The SELECT list.
SelectRow(dc, query_embedding) ==
  [id |-> dc.id, project_id |-> dc.project_id, source_type |-> dc.source_type,
   file_path |-> dc.file_path, chunk_content |-> dc.chunk_content,
   metadata |-> dc.metadata,
   similarity |-> Similarity(dc.embedding, query_embedding)]

\* The result sets the function may return.
search_similar_chunks(table, args) ==
  { LET cut == Limit(ordered, args.match_count)
    IN  [k \in 1..Len(cut) |-> SelectRow(cut[k], args.query_embedding)] :
    ordered \in OrderByDistance(
      WhereRows(table, args.query_embedding, args.project_filter,
                args.similarity_threshold),
      args.query_embedding) }

(***************************************************************************)
(* The search command: searchProjects of scripts/search.ts.                *)
(***************************************************************************)
\* a || b of JavaScript on an optional number: undefined and 0 are falsy.
OrDefault(value, default) ==
  IF value = Undefined \/ value = 0 THEN default ELSE value

SearchQueries == { [base |-> 1, len |-> 1], [base |-> 2, len |-> MaxInputChars + 1] }

SearchOptions ==
  [project : {NoString, "alpha", "ghost"},
   threshold : {Undefined, 0, 7000, 9500},
   limit : {Undefined} \cup 0..MaxLimit,
   generateContext : BOOLEAN]

\* new EmbeddingService(): throws without OPENAI_API_KEY.
EmbeddingServiceConstructs == env.OPENAI_API_KEY

SearchStart ==
  /\ s_pc = "idle"
  /\ \E q \in SearchQueries, o \in SearchOptions :
       /\ s_query' = q
       /\ s_options' = o
  /\ s_pc' = "embed"
  /\ UNCHANGED <<s_queryEmbedding, s_projectId, s_args, s_results, k_args, k_results>>
  /\ UNCHANGED <<dbvars, notSearch>>

\* new EmbeddingService(); await embeddingService.generateEmbedding(query)
SearchEmbed ==
  /\ s_pc = "embed"
  /\ EmbeddingServiceConstructs
  /\ s_queryEmbedding' = ResponseData(<<TruncateInput(s_query)>>)[1].embedding
  /\ s_pc' = "lookup"
  /\ UNCHANGED <<s_query, s_options, s_projectId, s_args, s_results, k_args, k_results>>
  /\ UNCHANGED <<dbvars, notSearch>>

\* The constructor or the embedding request throws: catch, process.exit(1).
SearchEmbedThrows ==
  /\ s_pc = "embed"
  /\ s_pc' = "exit1"
  /\ UNCHANGED <<s_query, s_options, s_queryEmbedding, s_projectId, s_args, s_results,
                 k_args, k_results>>
  /\ UNCHANGED <<dbvars, notSearch>>

\* from('projects').select('id').eq('name', name).single()
SelectProjectByName(name) ==
  IF \E p \in projects : p.name = name
    THEN CHOOSE p \in projects : p.name = name
    ELSE Null

SearchLookupProjectContinues ==
  /\ s_pc = "lookup"
  /\ s_pc' = "rpc"
  /\ s_projectId' =
       IF s_options.project # NoString /\ SelectProjectByName(s_options.project) # Null
         THEN SelectProjectByName(s_options.project).id
         ELSE s_projectId
  /\ UNCHANGED <<s_query, s_options, s_queryEmbedding, s_args, s_results, k_args, k_results>>
  /\ UNCHANGED <<dbvars, notSearch>>

\* if (options.project): the project is looked up by name; not found is
\* reported and ends the process with process.exit(1).
SearchLookupProject ==
  /\ s_pc = "lookup"
  /\ IF s_options.project # NoString
       THEN LET project == SelectProjectByName(s_options.project)
            IN  IF project = Null
                  THEN s_pc' = "exit1" /\ s_projectId' = s_projectId
                  ELSE s_pc' = "rpc" /\ s_projectId' = project.id
       ELSE s_pc' = "rpc" /\ s_projectId' = s_projectId
  /\ UNCHANGED <<s_query, s_options, s_queryEmbedding, s_args, s_results, k_args, k_results>>
  /\ UNCHANGED <<dbvars, notSearch>>

\* The arguments of rpc('search_similar_chunks', ...) in searchProjects.
SearchRpcArgs ==
  [query_embedding |-> s_queryEmbedding,
   project_filter |-> s_projectId,
   similarity_threshold |-> OrDefault(s_options.threshold, 6000),
   match_count |-> OrDefault(s_options.limit, 10)]

SearchRpc ==
  /\ s_pc = "rpc"
  /\ s_args' = SearchRpcArgs
  /\ \E rows \in search_similar_chunks(document_chunks, SearchRpcArgs) : s_results' = rows
  /\ s_pc' = "print"
  /\ UNCHANGED <<s_query, s_options, s_queryEmbedding, s_projectId, k_args, k_results>>
  /\ UNCHANGED <<dbvars, notSearch>>

\* The rpc call returns an error: throw, catch, process.exit(1).
SearchRpcError ==
  /\ s_pc = "rpc"
  /\ s_args' = SearchRpcArgs
  /\ s_pc' = "exit1"
  /\ UNCHANGED <<s_query, s_options, s_queryEmbedding, s_projectId, s_results,
                 k_args, k_results>>
  /\ UNCHANGED <<dbvars, notSearch>>

\* Print the results; return, or go on to the context file.
SearchPrint ==
  /\ s_pc = "print"
  /\ IF Len(s_results) = 0
       THEN s_pc' = "exit0"
       ELSE IF s_options.generateContext /\ s_projectId # NoId
              THEN s_pc' = "context"
              ELSE s_pc' = "exit0"
  /\ UNCHANGED <<s_query, s_options, s_queryEmbedding, s_projectId, s_args, s_results,
                 k_args, k_results>>
  /\ UNCHANGED <<dbvars, notSearch>>

\* The arguments of rpc('search_similar_chunks', ...) in generateQueryContext.
QueryContextRpcArgs(projectId, query) ==
  [query_embedding |-> ResponseData(<<TruncateInput(query)>>)[1].embedding,
   project_filter |-> projectId,
   similarity_threshold |-> 6000,
   match_count |-> 20]

\* kbGenerator.generateContextFiles(projectId, query, outputPath, threshold):
\* generateQueryContext searches again, writes the file and stores the record.
SearchGenerateContext ==
  /\ s_pc = "context"
  /\ LET args == QueryContextRpcArgs(s_projectId, s_query)
     IN  /\ k_args' = args
         /\ \E rows \in search_similar_chunks(document_chunks, args) :
              /\ k_results' = rows
              /\ IF Len(rows) = 0
                   THEN UNCHANGED <<files, knowledge_contexts>>
                   ELSE LET path == <<s_projectId, "query-context", Cardinality(files) + 1>>
                        IN  /\ files' = files \cup {[path |-> path, content |-> rows]}
                            /\ knowledge_contexts' = knowledge_contexts \cup
                                 {[id |-> Cardinality(knowledge_contexts) + 1,
                                   project_id |-> s_projectId,
                                   context_type |-> "query",
                                   title |-> s_query,
                                   content |-> rows,
                                   file_path |-> path]}
  /\ s_pc' = "exit0"
  /\ UNCHANGED <<s_query, s_options, s_queryEmbedding, s_projectId, s_args, s_results>>
  /\ UNCHANGED <<projects, document_chunks, env, notSearch>>

\* generateQueryContext throws (its embedding or its search fails): the error
\* reaches the catch of searchProjects, process.exit(1).
SearchGenerateContextThrows ==
  /\ s_pc = "context"
  /\ s_pc' = "exit1"
  /\ UNCHANGED <<s_query, s_options, s_queryEmbedding, s_projectId, s_args, s_results,
                 k_args, k_results>>
  /\ UNCHANGED <<dbvars, notSearch>>

(***************************************************************************)
(* The tables the search specification starts from: two projects and any   *)
(* subset of MaxRows chunk rows as ingestion stores them.                  *)
(***************************************************************************)
SeedProjects ==
  { [id |-> 1, name |-> "alpha", description |-> "d1", tech_stack |-> <<>>,
     repository_url |-> Null],
    [id |-> 2, name |-> "beta", description |-> "d2", tech_stack |-> <<>>,
     repository_url |-> Null] }

SeedProjectCycle == <<1, 1, 2, 1, 1>>
SeedTypeCycle == <<"code", "docs", "code", "code", "config">>
SeedPathCycle == << <<"a.ts">>, <<"README.md">>, <<"a.ts">>,
                    <<"c.ts", "#", "chunk-", 1>>, <<"d.json">> >>
SeedBaseCycle == <<2, 3, 2, 1, 4>>

SeedRow(k) ==
  LET c == ((k - 1) % 5) + 1
      content == [base |-> SeedBaseCycle[c], len |-> 1]
  IN  [id |-> k,
       project_id |-> SeedProjectCycle[c],
       source_type |-> SeedTypeCycle[c],
       file_path |-> SeedPathCycle[c],
       chunk_content |-> content,
       metadata |-> [filePath |-> SeedPathCycle[c], projectId |-> SeedProjectCycle[c],
                     sourceType |-> SeedTypeCycle[c]],
       embedding |-> EmbeddingModel(TruncateInput(content))]

InitSearch ==
  /\ InitEmbedIdle
  /\ InitOthersIdle
  /\ InitSearchIdle
  /\ InitIngestIdle
  /\ projects = SeedProjects
  /\ \E ks \in SUBSET (1..MaxRows) : document_chunks = {SeedRow(k) : k \in ks}
  /\ knowledge_contexts = {}
  /\ files = {}
  /\ env = [OPENAI_API_KEY |-> TRUE, AIRTABLE |-> TRUE]

NextSearch ==
  \/ SearchStart
  \/ SearchEmbed
  \/ SearchEmbedThrows
  \/ SearchLookupProject
  \/ SearchRpc
  \/ SearchRpcError
  \/ SearchPrint
  \/ SearchGenerateContext
  \/ SearchGenerateContextThrows

SpecSearch == InitSearch /\ [][NextSearch]_vars

(***************************************************************************)
(* The code processor (lib/processors/code-processor.ts).  A path is a     *)
(* sequence of tokens; a listed file carries its path, what path.extname   *)
(* and path.basename give for it, and the chunks the text splitter cuts    *)
(* its content into.                                                       *)
(***************************************************************************)
IgnoredPatterns == {"node_modules/", ".git/", "dist/", "build/", ".next/", "coverage/",
                    "*.log", "*.lock", "package-lock.json", "yarn.lock"}

ProcessedExtensions == {".ts", ".tsx", ".js", ".jsx", ".py", ".java", ".cpp", ".c",
                        ".md", ".mdx", ".txt", ".json", ".yaml", ".yml", ".sql",
                        ".prisma"}

\* CodeProcessor.shouldProcessFile
shouldProcessFile(file) ==
  IF \E k \in 1..Len(file.path) : file.path[k] \in IgnoredPatterns
    THEN FALSE
    ELSE file.ext \in ProcessedExtensions

\* CodeProcessor.getSourceType
getSourceType(file) ==
  IF file.ext \in {".md", ".mdx", ".txt"} THEN "docs"
  ELSE IF \/ file.ext \in {".json", ".yaml", ".yml", ".env"}
          \/ file.base \in {"package.json", "tsconfig.json", "next.config.js"}
         THEN "config"
         ELSE "code"

ChunkPathZeroBased(file, i, n) ==
  file.path \o (IF n > 1 THEN <<"#", "chunk-", i>> ELSE <<>>)

\* `${file}${chunks.length > 1 ? `#chunk-${i + 1}` : ''}` for the 0-based i
ChunkPath(file, i, n) ==
  file.path \o (IF n > 1 THEN <<"#", "chunk-", i + 1>> ELSE <<>>)

\* The documents pushed for one file.
FileDocuments(file, projectId) ==
  [k \in 1..Len(file.chunks) |->
     [content |-> file.chunks[k],
      metadata |-> [filePath |-> ChunkPath(file, k - 1, Len(file.chunks)),
                    fileType |-> file.ext,
                    projectId |-> projectId,
                    sourceType |-> getSourceType(file)]]]

\* CodeProcessor.processCodeRepository: the documents of the listed files.
RECURSIVE processCodeRepository(_, _)
processCodeRepository(fileList, projectId) ==
  IF fileList = <<>> THEN <<>>
  ELSE (IF shouldProcessFile(Head(fileList))
          THEN FileDocuments(Head(fileList), projectId)
          ELSE <<>>)
       \o processCodeRepository(Tail(fileList), projectId)

Chunk(b) == [base |-> b, len |-> 1]

\* A file git ls-files lists: its path, what path.extname and path.basename
\* give for it, the chunks createDocuments cuts its content into, and whether
\* fs.readFile and fs.stat succeed on it (a tracked file deleted from the
\* working tree is listed and cannot be read).
TrackedFile(name, ext, chunks, readable) ==
  [path |-> <<name>>, ext |-> ext, base |-> name, chunks |-> chunks,
   readable |-> readable]

\* A readable file in a directory: its path in parts, a '#' of a directory or
\* file name being a part of its own.
TrackedIn(path, base, ext, chunks) ==
  [path |-> path, ext |-> ext, base |-> base, chunks |-> chunks, readable |-> TRUE]

Text(b, n) == [base |-> b, len |-> n]

\* The working trees an ingestion run may find: a.ts alone, a.ts edited,
\* a.ts grown to three chunks beside a lock file and a README, a tree whose
\* second file cannot be read, and a tree the reports are generated from: a
\* file of three chunks, a README of two, two files under the directory
\* lib/c# and a configuration file.
RepoSnapshots ==
  << << TrackedFile("a.ts", ".ts", <<Chunk(1)>>, TRUE) >>,
     << TrackedFile("a.ts", ".ts", <<Chunk(2)>>, TRUE) >>,
     << TrackedFile("a.ts", ".ts", <<Chunk(1), Chunk(3), Chunk(2)>>, TRUE),
        TrackedFile("yarn.lock", ".lock", <<Chunk(5)>>, TRUE),
        TrackedFile("README.md", ".md", <<Chunk(4)>>, TRUE) >>,
     << TrackedFile("a.ts", ".ts", <<Chunk(1)>>, TRUE),
        TrackedFile("gone.ts", ".ts", <<>>, FALSE),
        TrackedFile("README.md", ".md", <<Chunk(4)>>, TRUE) >>,
     << TrackedFile("b.ts", ".ts", <<Text(1, 501), Text(2, 500), Text(4, 30)>>, TRUE),
        TrackedFile("README.md", ".md", <<Text(2, 900), Text(3, 40)>>, TRUE),
        TrackedIn(<<"lib/c", "#", "/x.ts">>, "x.ts", ".ts", <<Text(4, 500)>>),
        TrackedIn(<<"lib/c", "#", "/y.ts">>, "y.ts", ".ts", <<Text(1, 1000)>>),
        TrackedFile("d.json", ".json", <<Text(4, 20)>>, TRUE) >> >>

\* await fs.readFile(fullPath, 'utf-8') or fs.stat(fullPath) rejects for a file
\* the loop reaches.
ReadThrows(fileList) ==
  \E k \in 1..Len(fileList) : shouldProcessFile(fileList[k]) /\ ~fileList[k].readable

(***************************************************************************)
(* The Airtable processor (lib/processors/airtable-processor.ts).          *)
(***************************************************************************)
\* The records of a table: the joined text of the string fields longer than
\* 10 characters (len 0 when there is none).
AirtableRecords(table) ==
  << [id |-> "rec1", content |-> [base |-> 5, len |-> 2 * MaxInputChars]],
     [id |-> "rec2", content |-> [base |-> 6, len |-> 0]] >>

\* new AirtableProcessor(): throws without the key or the base id.
AirtableProcessorConstructs == env.AIRTABLE

\* AirtableProcessor.processTable
RECURSIVE RecordDocuments(_, _, _)
RecordDocuments(records, table, projectId) ==
  IF records = <<>> THEN <<>>
  ELSE (IF Head(records).content.len > 0
          THEN << [content |-> Head(records).content,
                   metadata |-> [filePath |-> <<"airtable/", table, "/", Head(records).id>>,
                                 fileType |-> "airtable",
                                 projectId |-> projectId,
                                 sourceType |-> "design"]] >>
          ELSE <<>>)
       \o RecordDocuments(Tail(records), table, projectId)

processTable(table, projectId) == RecordDocuments(AirtableRecords(table), table, projectId)

(***************************************************************************)
(* The knowledge base generator without a query                           *)
(* (generateProjectOverview, generateCodeSummaries).                       *)
(***************************************************************************)
\* fs.writeFile: the file at the path is created or replaced.
WriteFile(fs, path, content) ==
  {f \in fs : f.path # path} \cup {[path |-> path, content |-> content]}

sourceStatsOfEveryProject(table, projectId) ==
  LET types == {dc.source_type : dc \in table}
  IN  [t \in types |-> Cardinality({dc \in table : dc.source_type = t})]

\* The reduce of generateProjectOverview: a count for every source type that
\* has a chunk.
sourceStats(table, projectId) ==
  LET stats == {dc \in table : dc.project_id = projectId}
      types == {dc.source_type : dc \in stats}
  IN  [t \in types |-> Cardinality({dc \in stats : dc.source_type = t})]

\* chunk.file_path.split('#')[0]
RECURSIVE BeforeHash(_)
BeforeHash(path) ==
  IF path = <<>> \/ Head(path) = "#" THEN <<>>
  ELSE <<Head(path)>> \o BeforeHash(Tail(path))

\* The reduce of generateCodeSummaries: the code chunks under each file key.
fileGroups(table, projectId) ==
  LET codeChunks == {dc \in table : dc.project_id = projectId /\ dc.source_type = "code"}
      keys == {BeforeHash(dc.file_path) : dc \in codeChunks}
  IN  [f \in keys |-> {dc.id : dc \in {c \in codeChunks : BeforeHash(c.file_path) = f}}]

\* .order('file_path'): paths compare as text.  The parts of the model's
\* paths in ascending text order; an ordinal compares by its decimal digits.
PathPartsAscending ==
  <<"#", "/x.ts", "/y.ts", "README.md", "a.ts", "b.ts", "big.ts", "c.ts", "chunk-",
    "d.json", "gone.ts", "lib/c", "yarn.lock">>

RECURSIVE Digits(_)
Digits(n) == IF n < 10 THEN <<100 + n>> ELSE Append(Digits(n \div 10), 100 + (n % 10))

RECURSIVE SortKeyFrom(_, _)
SortKeyFrom(path, k) ==
  IF k > Len(path) THEN <<>>
  ELSE (IF k > 1 /\ path[k - 1] = "chunk-"
          THEN Digits(path[k])
          ELSE <<CHOOSE r \in 1..Len(PathPartsAscending) : PathPartsAscending[r] = path[k]>>)
       \o SortKeyFrom(path, k + 1)

\* a < b as text
TextBefore(a, b) ==
  LET ka == SortKeyFrom(a, 1)
      kb == SortKeyFrom(b, 1)
  IN  \E k \in 1..Len(kb) :
        /\ \A j \in 1..(k - 1) : j <= Len(ka) /\ ka[j] = kb[j]
        /\ k > Len(ka) \/ ka[k] < kb[k]

\* The rows that can be chunks[0] of a file group: those of the group no
\* other row of the group precedes in the order of the query (rows of one
\* path come in any order).
FirstChunks(table, ids) ==
  {dc \in table : dc.id \in ids /\
     \A o \in table : o.id \in ids => ~TextBefore(o.file_path, dc.file_path)}

PreviewChars == 500

\* chunk_content.substring(0, 500), and '...' if (chunk_content.length > 500)
Preview(content) ==
  [text |-> Substring(content, 0, PreviewChars), marker |-> content.len > PreviewChars]

\* The code summaries generateCodeSummaries can write: under each file key
\* the number of chunks and the preview of firstChunk.
CodeSummaries(table, projectId) ==
  LET groups == fileGroups(table, projectId)
      ids == UNION {groups[f] : f \in DOMAIN groups}
  IN  { [f \in DOMAIN groups |->
           [chunks |-> Cardinality(groups[f]),
            preview |-> Preview((CHOOSE dc \in table : dc.id = first[f]).chunk_content)]] :
        first \in {c \in [DOMAIN groups -> ids] :
                     \A f \in DOMAIN groups :
                       \E dc \in FirstChunks(table, groups[f]) : dc.id = c[f]} }

\* The overview generateProjectOverview writes.
ProjectOverview(table, project) ==
  [name |-> project.name,
   description |-> project.description,
   tech_stack |-> project.tech_stack,
   repository_url |-> project.repository_url,
   stats |-> sourceStats(table, project.id)]

\* generateContextFiles(projectId) without a query: the overview, the code
\* summary when the project has code chunks, the issues summary when it has
\* issue chunks.
GeneratedContextFiles(fs, table, project, codeSummary) ==
  LET withOverview == WriteFile(fs, <<project.id, "project-overview.md", 0>>,
                                ProjectOverview(table, project))
      withCode == IF DOMAIN codeSummary = {}
                    THEN withOverview
                    ELSE WriteFile(withOverview, <<project.id, "code-summary.md", 0>>,
                                   codeSummary)
      issueChunks == {dc \in table : dc.project_id = project.id /\ dc.source_type = "issues"}
  IN  IF issueChunks = {}
        THEN withCode
        ELSE WriteFile(withCode, <<project.id, "issues-summary.md", 0>>,
                       [total |-> Cardinality(issueChunks)])

(***************************************************************************)
(* The ingestion command: ingestProject of scripts/ingest-project.ts.      *)
(***************************************************************************)
IngestBatch == 50

IngestOptions(name, description, techStack, repo, path, airtable) ==
  [name |-> name, description |-> description, techStack |-> techStack,
   repo |-> repo, path |-> path, airtable |-> airtable]

\* The command lines of a run, each with the working tree it finds.
IngestScenarios ==
  UNION { { [options |-> IngestOptions(n, "d1", NoString, NoString, "repo", NoString),
             repo |-> RepoSnapshots[1]],
            [options |-> IngestOptions(n, "d2", "ts", "url", "repo", NoString),
             repo |-> RepoSnapshots[2]],
            [options |-> IngestOptions(n, "d1", NoString, NoString, "repo", NoString),
             repo |-> RepoSnapshots[3]],
            [options |-> IngestOptions(n, "d1", NoString, NoString, "repo", NoString),
             repo |-> RepoSnapshots[4]],
            [options |-> IngestOptions(n, "d1", NoString, NoString, NoString, "Tasks"),
             repo |-> <<>>] } :
          n \in {"alpha", "beta"} }

\* gen_random_uuid(): an id no row of the table has.
NewId(table) == Cardinality(table) + 1

\* from(table).upsert(values): INSERT ... ON CONFLICT (primary key) DO UPDATE.
\* The primary key is id; values without an id get a fresh one.
UpsertRow(table, values) ==
  IF "id" \in DOMAIN values /\ \E r \in table : r.id = values.id
    THEN {r \in table : r.id # values.id} \cup {values}
    ELSE IF "id" \in DOMAIN values
           THEN table \cup {values}
           ELSE table \cup {[f \in DOMAIN values \cup {"id"} |->
                               IF f = "id" THEN NewId(table) ELSE values[f]]}

\* The values ingestProject upserts for a document.
ChunkValues(doc, embedding) ==
  [project_id |-> doc.metadata.projectId,
   source_type |-> doc.metadata.sourceType,
   file_path |-> doc.metadata.filePath,
   chunk_content |-> doc.content,
   metadata |-> doc.metadata,
   embedding |-> embedding]

IngestCurrentBatchOverlapping == Slice(processors, i_i, i_i + IngestBatch + 1)

\* const batch = processors.slice(i, i + 50)
IngestCurrentBatch == Slice(processors, i_i, i_i + IngestBatch)

\* The document `doc` of the inner loop and its position in processors.
IngestDocIndex == i_i + i_j + 1
IngestDoc == IngestCurrentBatch[i_j + 1]

\* ingestProject(options) is called with one of the command lines.
IngestBegin(scenarios) ==
  /\ i_pc \in {"idle", "exit0", "exit1"}
  /\ runs' = runs + 1
  /\ \E sc \in scenarios :
       /\ i_options' = sc.options
       /\ i_repo' = sc.repo
  /\ i_pc' = "lookup"
  /\ i_project' = Null
  /\ processors' = <<>>
  /\ i_i' = 0
  /\ i_j' = 0
  /\ i_embedding' = Null
  /\ i_attempted' = <<>>
  /\ i_stored' = <<>>
  /\ i_failed' = {}
  /\ i_logged' = {}
  /\ i_thrown' = "none"
  /\ i_before' = [projects |-> projects, document_chunks |-> document_chunks]
  /\ UNCHANGED <<dbvars, notIngest>>

IngestStart ==
  /\ runs < MaxRuns
  /\ IngestBegin(IngestScenarios)

\* The values of the project row the options of the run describe.
ProjectValues(options) ==
  [name |-> options.name,
   description |-> options.description,
   tech_stack |-> IF options.techStack = NoString THEN <<>> ELSE <<options.techStack>>,
   repository_url |-> options.repo]

IngestLookupUpdates ==
  /\ i_pc = "lookup"
  /\ LET existingProject == SelectProjectByName(i_options.name)
         updated == [f \in DOMAIN existingProject |->
                       IF f = "id" THEN existingProject.id
                       ELSE ProjectValues(i_options)[f]]
     IN  IF existingProject # Null
           THEN /\ projects' = (projects \ {existingProject}) \cup {updated}
                /\ i_project' = updated
                /\ i_pc' = "services"
           ELSE /\ projects' = projects
                /\ i_project' = i_project
                /\ i_pc' = "insert"
  /\ UNCHANGED <<i_options, i_repo, processors, i_i, i_j, i_embedding, i_attempted,
                 i_stored, i_failed, i_logged, runs, i_thrown, i_before>>
  /\ UNCHANGED <<document_chunks, knowledge_contexts, files, env, notIngest>>

\* select('*').eq('name', options.name).single()
IngestLookup ==
  /\ i_pc = "lookup"
  /\ LET existingProject == SelectProjectByName(i_options.name)
     IN  IF existingProject # Null
           THEN i_project' = existingProject /\ i_pc' = "services"
           ELSE i_project' = i_project /\ i_pc' = "insert"
  /\ UNCHANGED <<i_options, i_repo, processors, i_i, i_j, i_embedding, i_attempted,
                 i_stored, i_failed, i_logged, runs, i_thrown, i_before>>
  /\ UNCHANGED <<dbvars, notIngest>>

\* insert({...}).select().single() succeeds (name is UNIQUE).
IngestInsert ==
  /\ i_pc = "insert"
  /\ ~ \E p \in projects : p.name = i_options.name
  /\ LET values == ProjectValues(i_options)
         newProject == [f \in DOMAIN values \cup {"id"} |->
                          IF f = "id" THEN NewId(projects) ELSE values[f]]
     IN  /\ projects' = projects \cup {newProject}
         /\ i_project' = newProject
  /\ i_pc' = "services"
  /\ UNCHANGED <<i_options, i_repo, processors, i_i, i_j, i_embedding, i_attempted,
                 i_stored, i_failed, i_logged, runs, i_thrown, i_before>>
  /\ UNCHANGED <<document_chunks, knowledge_contexts, files, env, notIngest>>

\* The insert returns an error: throw, catch, process.exit(1).
IngestInsertError ==
  /\ i_pc = "insert"
  /\ i_thrown' = "store"
  /\ i_pc' = "exit1"
  /\ UNCHANGED <<i_options, i_repo, i_project, processors, i_i, i_j, i_embedding,
                 i_attempted, i_stored, i_failed, i_logged, runs, i_before>>
  /\ UNCHANGED <<dbvars, notIngest>>

\* new EmbeddingService(): the constructor throws without OPENAI_API_KEY.
IngestServices ==
  /\ i_pc = "services"
  /\ i_pc' = IF EmbeddingServiceConstructs THEN "code" ELSE "exit1"
  /\ i_thrown' = IF EmbeddingServiceConstructs THEN i_thrown ELSE "config"
  /\ UNCHANGED <<i_options, i_repo, i_project, processors, i_i, i_j, i_embedding,
                 i_attempted, i_stored, i_failed, i_logged, runs, i_before>>
  /\ UNCHANGED <<dbvars, notIngest>>

\* if (options.repo || options.path) processors.push(...codeDocuments)
IngestCode ==
  /\ i_pc = "code"
  /\ (i_options.repo # NoString \/ i_options.path # NoString) => ~ReadThrows(i_repo)
  /\ processors' =
       IF i_options.repo # NoString \/ i_options.path # NoString
         THEN processors \o processCodeRepository(i_repo, i_project.id)
         ELSE processors
  /\ i_pc' = "airtable"
  /\ UNCHANGED <<i_options, i_repo, i_project, i_i, i_j, i_embedding, i_attempted,
                 i_stored, i_failed, i_logged, runs, i_thrown, i_before>>
  /\ UNCHANGED <<dbvars, notIngest>>

IngestCodeSkipsUnreadable ==
  /\ i_pc = "code"
  /\ i_options.repo # NoString \/ i_options.path # NoString
  /\ processors' = processors \o
       processCodeRepository(SelectSeq(i_repo, LAMBDA f : f.readable), i_project.id)
  /\ i_pc' = "airtable"
  /\ UNCHANGED <<i_options, i_repo, i_project, i_i, i_j, i_embedding, i_attempted,
                 i_stored, i_failed, i_logged, runs, i_thrown, i_before>>
  /\ UNCHANGED <<dbvars, notIngest>>

\* processCodeRepository throws: git ls-files fails, or fs.readFile / fs.stat
\* fails on a listed file.  Its catch logs and rethrows; the catch of
\* ingestProject logs and calls process.exit(1).
IngestCodeThrows ==
  /\ i_pc = "code"
  /\ i_options.repo # NoString \/ i_options.path # NoString
  /\ i_thrown' \in {"git"} \cup (IF ReadThrows(i_repo) THEN {"read"} ELSE {})
  /\ i_pc' = "exit1"
  /\ UNCHANGED <<i_options, i_repo, i_project, processors, i_i, i_j, i_embedding,
                 i_attempted, i_stored, i_failed, i_logged, runs, i_before>>
  /\ UNCHANGED <<dbvars, notIngest>>

\* if (options.airtable) for each table processors.push(...airtableDocuments)
IngestAirtable ==
  /\ i_pc = "airtable"
  /\ i_options.airtable # NoString => AirtableProcessorConstructs
  /\ processors' =
       IF i_options.airtable # NoString
         THEN processors \o processTable(i_options.airtable, i_project.id)
         ELSE processors
  /\ i_pc' = "loop"
  /\ UNCHANGED <<i_options, i_repo, i_project, i_i, i_j, i_embedding, i_attempted,
                 i_stored, i_failed, i_logged, runs, i_thrown, i_before>>
  /\ UNCHANGED <<dbvars, notIngest>>

\* new AirtableProcessor() or processTable throws: process.exit(1).
IngestAirtableThrows ==
  /\ i_pc = "airtable"
  /\ i_options.airtable # NoString
  /\ i_thrown' = IF AirtableProcessorConstructs THEN "airtable" ELSE "config"
  /\ i_pc' = "exit1"
  /\ UNCHANGED <<i_options, i_repo, i_project, processors, i_i, i_j, i_embedding,
                 i_attempted, i_stored, i_failed, i_logged, runs, i_before>>
  /\ UNCHANGED <<dbvars, notIngest>>

\* for (let i = 0; i < processors.length; i += 50): the loop test.
IngestLoopTest ==
  /\ i_pc = "loop"
  /\ IF i_i < Len(processors)
       THEN i_pc' = "embed" /\ i_j' = 0
       ELSE i_pc' = "kb" /\ i_j' = i_j
  /\ UNCHANGED <<i_options, i_repo, i_project, processors, i_i, i_embedding,
                 i_attempted, i_stored, i_failed, i_logged, runs, i_thrown, i_before>>
  /\ UNCHANGED <<dbvars, notIngest>>

\* The inner loop goes to the next document of the batch, or the batch ends.
IngestAfterDoc ==
  /\ i_j' = i_j + 1
  /\ i_pc' = IF i_j + 1 < Len(IngestCurrentBatch) THEN "embed" ELSE "delay"

\* const embedding = await embeddingService.generateEmbedding(doc.content)
IngestEmbed ==
  /\ i_pc = "embed"
  /\ i_embedding' = ResponseData(<<TruncateInput(IngestDoc.content)>>)[1].embedding
  /\ i_attempted' = Append(i_attempted, IngestDocIndex)
  /\ i_pc' = "upsert"
  /\ UNCHANGED <<i_options, i_repo, i_project, processors, i_i, i_j, i_stored,
                 i_failed, i_logged, runs, i_thrown, i_before>>
  /\ UNCHANGED <<dbvars, notIngest>>

IngestEmbedThrowsThenStores ==
  /\ i_pc = "embed"
  /\ Cardinality(i_failed) < MaxFailures
  /\ i_attempted' = Append(i_attempted, IngestDocIndex)
  /\ i_failed' = i_failed \cup {IngestDocIndex}
  /\ i_logged' = i_logged \cup {IngestDocIndex}
  /\ i_embedding' = EmbeddingModel([base |-> 0, len |-> 0])
  /\ i_pc' = "upsert"
  /\ UNCHANGED <<i_options, i_repo, i_project, processors, i_i, i_j, i_stored,
                 runs, i_thrown, i_before>>
  /\ UNCHANGED <<dbvars, notIngest>>

\* generateEmbedding throws: the catch of the inner loop logs the document.
IngestEmbedThrows ==
  /\ i_pc = "embed"
  /\ Cardinality(i_failed) < MaxFailures
  /\ i_attempted' = Append(i_attempted, IngestDocIndex)
  /\ i_failed' = i_failed \cup {IngestDocIndex}
  /\ i_logged' = i_logged \cup {IngestDocIndex}
  /\ IngestAfterDoc
  /\ UNCHANGED <<i_options, i_repo, i_project, processors, i_i, i_embedding, i_stored,
                 runs, i_thrown, i_before>>
  /\ UNCHANGED <<dbvars, notIngest>>

\* await supabase.from('document_chunks').upsert({...}) stores the row.
IngestUpsert ==
  /\ i_pc = "upsert"
  /\ document_chunks' = UpsertRow(document_chunks, ChunkValues(IngestDoc, i_embedding))
  /\ i_stored' = Append(i_stored, IngestDocIndex)
  /\ IngestAfterDoc
  /\ UNCHANGED <<i_options, i_repo, i_project, processors, i_i, i_embedding,
                 i_attempted, i_failed, i_logged, runs, i_thrown, i_before>>
  /\ UNCHANGED <<projects, knowledge_contexts, files, env, notIngest>>

\* The upsert fails: the client resolves to { error }, which the code drops.
IngestUpsertError ==
  /\ i_pc = "upsert"
  /\ Cardinality(i_failed) < MaxFailures
  /\ i_failed' = i_failed \cup {IngestDocIndex}
  /\ IngestAfterDoc
  /\ UNCHANGED <<i_options, i_repo, i_project, processors, i_i, i_embedding,
                 i_attempted, i_stored, i_logged, runs, i_thrown, i_before>>
  /\ UNCHANGED <<dbvars, notIngest>>

\* The delay after a batch elapses: i += 50.
IngestDelay ==
  /\ i_pc = "delay"
  /\ i_i' = i_i + IngestBatch
  /\ i_pc' = "loop"
  /\ UNCHANGED <<i_options, i_repo, i_project, processors, i_j, i_embedding,
                 i_attempted, i_stored, i_failed, i_logged, runs, i_thrown, i_before>>
  /\ UNCHANGED <<dbvars, notIngest>>

\* kbGenerator.generateContextFiles(project.id), then the success messages.
IngestGenerateKb ==
  /\ i_pc = "kb"
  /\ \E codeSummary \in CodeSummaries(document_chunks, i_project.id) :
       files' = GeneratedContextFiles(files, document_chunks, i_project, codeSummary)
  /\ i_pc' = "exit0"
  /\ UNCHANGED <<i_options, i_repo, i_project, processors, i_i, i_j, i_embedding,
                 i_attempted, i_stored, i_failed, i_logged, runs, i_thrown, i_before>>
  /\ UNCHANGED <<projects, document_chunks, knowledge_contexts, env, notIngest>>

\* generateContextFiles throws: process.exit(1).
IngestGenerateKbThrows ==
  /\ i_pc = "kb"
  /\ i_thrown' = "kb"
  /\ i_pc' = "exit1"
  /\ UNCHANGED <<i_options, i_repo, i_project, processors, i_i, i_j, i_embedding,
                 i_attempted, i_stored, i_failed, i_logged, runs, i_before>>
  /\ UNCHANGED <<dbvars, notIngest>>

InitIngest ==
  /\ InitEmbedIdle
  /\ InitOthersIdle
  /\ InitSearchIdle
  /\ InitIngestIdle
  /\ projects = {}
  /\ document_chunks = {}
  /\ knowledge_contexts = {}
  /\ files = {}
  /\ env \in { [OPENAI_API_KEY |-> TRUE, AIRTABLE |-> TRUE],
               [OPENAI_API_KEY |-> FALSE, AIRTABLE |-> TRUE],
               [OPENAI_API_KEY |-> TRUE, AIRTABLE |-> FALSE] }

NextIngest ==
  \/ IngestStart
  \/ IngestLookup
  \/ IngestInsert
  \/ IngestInsertError
  \/ IngestServices
  \/ IngestCode
  \/ IngestCodeThrows
  \/ IngestAirtable
  \/ IngestAirtableThrows
  \/ IngestLoopTest
  \/ IngestEmbed
  \/ IngestEmbedThrows
  \/ IngestUpsert
  \/ IngestUpsertError
  \/ IngestDelay
  \/ IngestGenerateKb
  \/ IngestGenerateKbThrows

SpecIngest == InitIngest /\ [][NextIngest]_vars

(***************************************************************************)
(* One ingestion run over more documents than a batch of the loop holds.   *)
(***************************************************************************)
\* A file the splitter cuts into n chunks.
LargeFile(n) ==
  TrackedFile("big.ts", ".ts", [k \in 1..n |-> Chunk(((k - 1) % NBases) + 1)], TRUE)

\* 50 code documents followed by one Airtable record.
LargeScenarios ==
  { [options |-> IngestOptions("alpha", "d1", NoString, NoString, "repo", "Tasks"),
     repo |-> <<LargeFile(IngestBatch)>>] }

IngestStartLarge ==
  /\ runs = 0
  /\ IngestBegin(LargeScenarios)

NextBatches ==
  \/ IngestStartLarge
  \/ IngestLookup
  \/ IngestInsert
  \/ IngestInsertError
  \/ IngestServices
  \/ IngestCode
  \/ IngestCodeThrows
  \/ IngestAirtable
  \/ IngestAirtableThrows
  \/ IngestLoopTest
  \/ IngestEmbed
  \/ IngestEmbedThrows
  \/ IngestUpsert
  \/ IngestUpsertError
  \/ IngestDelay
  \/ IngestGenerateKb
  \/ IngestGenerateKbThrows

SpecBatches == InitIngest /\ [][NextBatches]_vars

(***************************************************************************)
(* "Create or get project" of ingestProject (lines 16-42) in several       *)
(* processes at once.  Each await is a step; the statements of the other   *)
(* processes interleave between the lookup and the insert.                 *)
(***************************************************************************)
ConcurrentOptions ==
  { IngestOptions(n, d, NoString, NoString, "repo", NoString) :
      n \in {"alpha", "beta"}, d \in {"d1", "d2"} }

ConcurrentStart(p) ==
  /\ concurrent[p].pc = "idle"
  /\ \E o \in ConcurrentOptions :
       concurrent' = [concurrent EXCEPT ![p] = [@ EXCEPT !.pc = "lookup", !.options = o]]
  /\ UNCHANGED <<dbvars, notRace>>

\* select('*').eq('name', options.name).single(); "Using existing project"
ConcurrentLookup(p) ==
  /\ concurrent[p].pc = "lookup"
  /\ LET existingProject == SelectProjectByName(concurrent[p].options.name)
     IN  concurrent' =
           [concurrent EXCEPT ![p] =
              IF existingProject # Null
                THEN [@ EXCEPT !.pc = "services", !.project = existingProject]
                ELSE [@ EXCEPT !.pc = "insert"]]
  /\ UNCHANGED <<dbvars, notRace>>

ConcurrentInsertUnchecked(p) ==
  /\ concurrent[p].pc = "insert"
  /\ LET values == ProjectValues(concurrent[p].options)
         newProject == [f \in DOMAIN values \cup {"id"} |->
                          IF f = "id" THEN NewId(projects) ELSE values[f]]
     IN  /\ projects' = projects \cup {newProject}
         /\ concurrent' = [concurrent EXCEPT ![p] =
                             [@ EXCEPT !.pc = "services", !.project = newProject,
                                       !.created = TRUE]]
  /\ UNCHANGED <<document_chunks, knowledge_contexts, files, env, notRace>>

\* insert({...}).select().single() succeeds: no row has the name (name is
\* UNIQUE); "Created new project"
ConcurrentInsert(p) ==
  /\ concurrent[p].pc = "insert"
  /\ ~ \E q \in projects : q.name = concurrent[p].options.name
  /\ LET values == ProjectValues(concurrent[p].options)
         newProject == [f \in DOMAIN values \cup {"id"} |->
                          IF f = "id" THEN NewId(projects) ELSE values[f]]
     IN  /\ projects' = projects \cup {newProject}
         /\ concurrent' = [concurrent EXCEPT ![p] =
                             [@ EXCEPT !.pc = "services", !.project = newProject,
                                       !.created = TRUE]]
  /\ UNCHANGED <<document_chunks, knowledge_contexts, files, env, notRace>>

\* The insert returns an error (the name was taken in the meantime, or the
\* store failed): throw, catch, process.exit(1).
ConcurrentInsertError(p) ==
  /\ concurrent[p].pc = "insert"
  /\ concurrent' = [concurrent EXCEPT ![p] = [@ EXCEPT !.pc = "exit1"]]
  /\ UNCHANGED <<dbvars, notRace>>

\* The run goes on: a document of the repository is stored under project.id.
ConcurrentStore(p) ==
  /\ concurrent[p].pc = "services"
  /\ LET doc == processCodeRepository(RepoSnapshots[1], concurrent[p].project.id)[1]
     IN  document_chunks' =
           UpsertRow(document_chunks,
                     ChunkValues(doc, ResponseData(<<TruncateInput(doc.content)>>)[1].embedding))
  /\ concurrent' = [concurrent EXCEPT ![p] = [@ EXCEPT !.pc = "exit0"]]
  /\ UNCHANGED <<projects, knowledge_contexts, files, env, notRace>>

InitRace ==
  /\ InitEmbedIdle
  /\ InitSearchIdle
  /\ InitIngestIdle
  /\ InitOthersIdle
  /\ projects \in {{}, {CHOOSE q \in SeedProjects : q.name = "alpha"}}
  /\ document_chunks = {}
  /\ knowledge_contexts = {}
  /\ files = {}
  /\ env = [OPENAI_API_KEY |-> TRUE, AIRTABLE |-> TRUE]

NextRace ==
  \E p \in 1..MaxProcs :
    \/ ConcurrentStart(p)
    \/ ConcurrentLookup(p)
    \/ ConcurrentInsert(p)
    \/ ConcurrentInsertError(p)
    \/ ConcurrentStore(p)

SpecRace == InitRace /\ [][NextRace]_vars

(***************************************************************************)
(* The knowledge base generator: one call of generateContextFiles against  *)
(* tables that hold what ingestion stored.                                 *)
(***************************************************************************)
\* The documents of earlier ingestion runs, in the order they were stored:
\* the report tree for project 1, a.ts for project 2, an Airtable table for
\* project 1.
KbDocs ==
  processCodeRepository(RepoSnapshots[5], 1)
    \o processCodeRepository(RepoSnapshots[1], 2)
    \o processTable("Tasks", 1)

\* The row ingestProject stored for the k-th document.
KbRow(k) ==
  LET values == ChunkValues(KbDocs[k], ResponseData(<<TruncateInput(KbDocs[k].content)>>)[1].embedding)
  IN  [f \in DOMAIN values \cup {"id"} |-> IF f = "id" THEN k ELSE values[f]]

\* from('projects').select('*').eq('id', projectId).single()
SelectProjectById(id) ==
  IF \E q \in projects : q.id = id
    THEN CHOOSE q \in projects : q.id = id
    ELSE Null

\* generateContextFiles(projectId, query): mkdir, then if (query) the query
\* context, else the project reports.
GenerateContextFiles ==
  /\ g_pc = "idle"
  /\ EmbeddingServiceConstructs
  /\ \E projectId \in 1..3, query \in SearchQueries \cup {NoQuery} :
       /\ g_projectId' = projectId
       /\ g_query' = query
       /\ g_pc' = IF query # NoQuery THEN "received" ELSE "reports"
       /\ g_steps' = IF query # NoQuery THEN <<"received">> ELSE <<>>
  /\ UNCHANGED <<g_queryEmbedding, relevantChunks, groupedChunks, g_content, g_filePath>>
  /\ UNCHANGED <<dbvars, notGenerate>>

\* const queryEmbedding = await this.embeddingService.generateEmbedding(query)
QueryEmbed ==
  /\ g_pc = "received"
  /\ g_queryEmbedding' = ResponseData(<<TruncateInput(g_query)>>)[1].embedding
  /\ g_pc' = "embedded"
  /\ g_steps' = Append(g_steps, "embedded")
  /\ UNCHANGED <<g_projectId, g_query, relevantChunks, groupedChunks, g_content, g_filePath>>
  /\ UNCHANGED <<dbvars, notGenerate>>

\* generateEmbedding throws: the catch logs and rethrows.
QueryEmbedThrows ==
  /\ g_pc = "received"
  /\ g_pc' = "failed"
  /\ g_steps' = Append(g_steps, "failed")
  /\ UNCHANGED <<g_projectId, g_query, g_queryEmbedding, relevantChunks, groupedChunks,
                 g_content, g_filePath>>
  /\ UNCHANGED <<dbvars, notGenerate>>

QuerySearchAlwaysContinues ==
  /\ g_pc = "embedded"
  /\ \E rows \in search_similar_chunks(document_chunks,
                                       QueryContextRpcArgs(g_projectId, g_query)) :
       relevantChunks' = rows
  /\ g_pc' = "searched"
  /\ g_steps' = Append(g_steps, "searched")
  /\ UNCHANGED <<g_projectId, g_query, g_queryEmbedding, groupedChunks, g_content, g_filePath>>
  /\ UNCHANGED <<dbvars, notGenerate>>

\* rpc('search_similar_chunks', ...) resolves with rows; without a row the
\* method logs 'No relevant chunks found' and returns.
QuerySearch ==
  /\ g_pc = "embedded"
  /\ \E rows \in search_similar_chunks(document_chunks,
                                       QueryContextRpcArgs(g_projectId, g_query)) :
       /\ relevantChunks' = rows
       /\ g_pc' = IF Len(rows) = 0 THEN "returned" ELSE "searched"
  /\ g_steps' = Append(g_steps, "searched")
  /\ UNCHANGED <<g_projectId, g_query, g_queryEmbedding, groupedChunks, g_content, g_filePath>>
  /\ UNCHANGED <<dbvars, notGenerate>>

\* if (error) throw error
QuerySearchError ==
  /\ g_pc = "embedded"
  /\ g_pc' = "failed"
  /\ g_steps' = Append(g_steps, "failed")
  /\ UNCHANGED <<g_projectId, g_query, g_queryEmbedding, relevantChunks, groupedChunks,
                 g_content, g_filePath>>
  /\ UNCHANGED <<dbvars, notGenerate>>

GroupNewestFirst(acc, chunk) ==
  LET at == {k \in 1..Len(acc) : acc[k].sourceType = chunk.source_type}
  IN  IF at = {}
        THEN Append(acc, [sourceType |-> chunk.source_type, chunks |-> <<chunk>>])
        ELSE [acc EXCEPT ![CHOOSE k \in at : TRUE].chunks = <<chunk>> \o @]

\* The callback of the reduce: if (!acc[type]) acc[type] = [];
\* acc[type].push(chunk).  The entries of acc are kept in insertion order,
\* the order Object.entries gives them in.
Group(acc, chunk) ==
  LET at == {k \in 1..Len(acc) : acc[k].sourceType = chunk.source_type}
  IN  IF at = {}
        THEN Append(acc, [sourceType |-> chunk.source_type, chunks |-> <<chunk>>])
        ELSE [acc EXCEPT ![CHOOSE k \in at : TRUE].chunks = Append(@, chunk)]

\* relevantChunks.reduce(..., {})
RECURSIVE GroupBySourceType(_, _)
GroupBySourceType(acc, chunks) ==
  IF chunks = <<>> THEN acc
  ELSE GroupBySourceType(Group(acc, Head(chunks)), Tail(chunks))

QueryGroup ==
  /\ g_pc = "searched"
  /\ groupedChunks' = GroupBySourceType(<<>>, relevantChunks)
  /\ g_pc' = "grouped"
  /\ g_steps' = Append(g_steps, "grouped")
  /\ UNCHANGED <<g_projectId, g_query, g_queryEmbedding, relevantChunks, g_content, g_filePath>>
  /\ UNCHANGED <<dbvars, notGenerate>>

\* sourceType.toUpperCase()
ToUpperCase(sourceType) ==
  [code |-> "CODE", docs |-> "DOCS", issues |-> "ISSUES", design |-> "DESIGN",
   config |-> "CONFIG"][sourceType]

\* (chunk.similarity * 100).toFixed(1), in tenths of a percent
ToFixed1(similarity) == (similarity + 5) \div 10

\* chunk.file_path || 'Unknown'
PathOrUnknown(path) == IF path = <<>> THEN <<"Unknown">> ELSE path

\* The content of the context file: the title and, per entry of
\* groupedChunks, the heading and the sources "#### Source <index + 1>: ...".
QueryContextContent(query, grouped) ==
  [title |-> query,
   sections |->
     [g \in 1..Len(grouped) |->
        [heading |-> ToUpperCase(grouped[g].sourceType),
         sources |->
           [n \in 1..Len(grouped[g].chunks) |->
              [source |-> n,
               path |-> PathOrUnknown(grouped[g].chunks[n].file_path),
               similarity |-> ToFixed1(grouped[g].chunks[n].similarity),
               content |-> grouped[g].chunks[n].chunk_content]]]]]

\* The file name `query-context-${Date.now()}.md` under the project's directory.
QueryContextPath(projectId) == <<projectId, "query-context", Cardinality(files) + 1>>

\* The content is built and fs.writeFile(filePath, content) succeeds.
QueryRender ==
  /\ g_pc = "grouped"
  /\ g_content' = QueryContextContent(g_query, groupedChunks)
  /\ g_filePath' = QueryContextPath(g_projectId)
  /\ files' = WriteFile(files, QueryContextPath(g_projectId),
                        QueryContextContent(g_query, groupedChunks))
  /\ g_pc' = "rendered"
  /\ g_steps' = Append(g_steps, "rendered")
  /\ UNCHANGED <<g_projectId, g_query, g_queryEmbedding, relevantChunks, groupedChunks>>
  /\ UNCHANGED <<projects, document_chunks, knowledge_contexts, env, notGenerate>>

QueryWriteThrowsAfterRecord ==
  /\ g_pc = "grouped"
  /\ knowledge_contexts' = knowledge_contexts \cup
       {[id |-> NewId(knowledge_contexts),
         project_id |-> g_projectId,
         context_type |-> "query",
         title |-> g_query,
         content |-> QueryContextContent(g_query, groupedChunks),
         file_path |-> QueryContextPath(g_projectId)]}
  /\ g_pc' = "failed"
  /\ g_steps' = Append(g_steps, "failed")
  /\ UNCHANGED <<g_projectId, g_query, g_queryEmbedding, relevantChunks, groupedChunks,
                 g_content, g_filePath>>
  /\ UNCHANGED <<projects, document_chunks, files, env, notGenerate>>

\* fs.writeFile rejects (the file is not created): the catch logs and rethrows.
QueryWriteThrows ==
  /\ g_pc = "grouped"
  /\ g_pc' = "failed"
  /\ g_steps' = Append(g_steps, "failed")
  /\ UNCHANGED <<g_projectId, g_query, g_queryEmbedding, relevantChunks, groupedChunks,
                 g_content, g_filePath>>
  /\ UNCHANGED <<dbvars, notGenerate>>

\* from('knowledge_contexts').insert({...}) stores the record; the method
\* returns.
QueryStoreRecord ==
  /\ g_pc = "rendered"
  /\ knowledge_contexts' = knowledge_contexts \cup
       {[id |-> NewId(knowledge_contexts),
         project_id |-> g_projectId,
         context_type |-> "query",
         title |-> g_query,
         content |-> g_content,
         file_path |-> g_filePath]}
  /\ g_pc' = "returned"
  /\ UNCHANGED <<g_projectId, g_query, g_queryEmbedding, relevantChunks, groupedChunks,
                 g_content, g_filePath, g_steps>>
  /\ UNCHANGED <<projects, document_chunks, files, env, notGenerate>>

\* The insert resolves with an error, which the method does not read.
QueryStoreRecordError ==
  /\ g_pc = "rendered"
  /\ g_pc' = "returned"
  /\ UNCHANGED <<g_projectId, g_query, g_queryEmbedding, relevantChunks, groupedChunks,
                 g_content, g_filePath, g_steps>>
  /\ UNCHANGED <<dbvars, notGenerate>>

\* generateProjectOverview, generateCodeSummaries, generateIssueSummaries
ProjectReports ==
  /\ g_pc = "reports"
  /\ SelectProjectById(g_projectId) # Null
  /\ \E codeSummary \in CodeSummaries(document_chunks, g_projectId) :
       files' = GeneratedContextFiles(files, document_chunks,
                                      SelectProjectById(g_projectId), codeSummary)
  /\ g_pc' = "returned"
  /\ UNCHANGED <<g_projectId, g_query, g_queryEmbedding, relevantChunks, groupedChunks,
                 g_content, g_filePath, g_steps>>
  /\ UNCHANGED <<projects, document_chunks, knowledge_contexts, env, notGenerate>>

\* if (!project) throw new Error('Project not found'), or the first
\* fs.writeFile rejects: the catch logs and rethrows.
ProjectReportsThrow ==
  /\ g_pc = "reports"
  /\ g_pc' = "failed"
  /\ UNCHANGED <<g_projectId, g_query, g_queryEmbedding, relevantChunks, groupedChunks,
                 g_content, g_filePath, g_steps>>
  /\ UNCHANGED <<dbvars, notGenerate>>

InitGenerate ==
  /\ InitEmbedIdle
  /\ InitSearchIdle
  /\ InitIngestIdle
  /\ InitOthersIdle
  /\ projects = SeedProjects
  /\ \E ks \in SUBSET (1..Min(MaxStored, Len(KbDocs))) :
       document_chunks = {KbRow(k) : k \in ks}
  /\ knowledge_contexts = {}
  /\ files = {}
  /\ env = [OPENAI_API_KEY |-> TRUE, AIRTABLE |-> TRUE]

NextGenerate ==
  \/ GenerateContextFiles
  \/ QueryEmbed
  \/ QueryEmbedThrows
  \/ QuerySearch
  \/ QuerySearchError
  \/ QueryGroup
  \/ QueryRender
  \/ QueryWriteThrows
  \/ QueryStoreRecord
  \/ QueryStoreRecordError
  \/ ProjectReports
  \/ ProjectReportsThrow

SpecGenerate == InitGenerate /\ [][NextGenerate]_vars

(***************************************************************************)
(* The text splitter of CodeProcessor: the RecursiveCharacterTextSplitter  *)
(* the constructor configures (chunkSize 1000, chunkOverlap 200, thirteen  *)
(* separators, keepSeparator left at its default true) and                 *)
(* processCodeRepository calls through createDocuments([content]).         *)
(*                                                                         *)
(* A text is run-length encoded: a sequence of runs, each one character    *)
(* repeated over the positions from..to (1-based, consecutive runs carry   *)
(* different characters).  Every split and every chunk is a substring of   *)
(* the text being split, kept as the range of positions it covers.         *)
(***************************************************************************)
Max(a, b) == IF a > b THEN a ELSE b

\* separators: [...] of the constructor, each as its characters.
Separators ==
  << <<"\n", "\n", "c", "l", "a", "s", "s", " ">>,
     <<"\n", "\n", "f", "u", "n", "c", "t", "i", "o", "n", " ">>,
     <<"\n", "\n", "e", "x", "p", "o", "r", "t", " ">>,
     <<"\n", "\n", "c", "o", "n", "s", "t", " ">>,
     <<"\n", "\n", "l", "e", "t", " ">>,
     <<"\n", "\n", "v", "a", "r", " ">>,
     <<"\n", "\n", "/", "/", " ">>,
     <<"\n", "\n", "/", "*">>,
     <<"\n", "\n", "*", "/">>,
     <<"\n", "\n">>,
     <<"\n">>,
     <<" ">>,
     <<>> >>

\* The characters String.prototype.trim removes.
WhiteSpace == {" ", "\n", "\t", "\r"}

RangeLen(r) == r.to - r.from + 1

\* A text from its runs <<character, count>>, in order.
RECURSIVE TextFrom(_, _)
TextFrom(pieces, start) ==
  IF pieces = <<>> THEN <<>>
  ELSE << [c |-> Head(pieces)[1], from |-> start, to |-> start + Head(pieces)[2] - 1] >>
       \o TextFrom(Tail(pieces), start + Head(pieces)[2])

\* text.length
TextLength(text) == IF text = <<>> THEN 0 ELSE text[Len(text)].to

\* The character at a position of the text.
CharAt(text, p) ==
  text[CHOOSE k \in 1..Len(text) : text[k].from <= p /\ p <= text[k].to].c

\* The characters of a range of the text, as runs <<character, count>>: two
\* ranges hold the same string iff these are equal.
Content(text, r) ==
  LET inside == SelectSeq(text, LAMBDA run : run.from <= r.to /\ r.from <= run.to)
  IN  IF r.from > r.to THEN <<>>
      ELSE [k \in 1..Len(inside) |->
              <<inside[k].c, Min(inside[k].to, r.to) - Max(inside[k].from, r.from) + 1>>]

\* The separator occurs in the text at position p and ends within `to`.
MatchAt(text, p, sep, to) ==
  /\ p + Len(sep) - 1 <= to
  /\ \A i \in 1..Len(sep) : CharAt(text, p + i - 1) = sep[i]

\* The positions of the range where the separator occurs.
Occurrences(text, r, sep) ==
  LET starts == UNION { Max(text[k].from, r.from)..Min(text[k].to, r.to) :
                        k \in {j \in 1..Len(text) : text[j].c = sep[1]} }
  IN  {p \in starts : MatchAt(text, p, sep, r.to)}

\* text.includes(s) for the substring at the range
Includes(text, r, sep) == Occurrences(text, r, sep) # {}

\* The loop of _splitText that picks the separator: the first of the list
\* (from position `first` on) that is empty or occurs in the text; the rest
\* of the list becomes newSeparators unless the empty separator was picked.
PickSeparator(text, r, first) ==
  LET hits == {i \in first..Len(Separators) :
                 Separators[i] = <<>> \/ Includes(text, r, Separators[i])}
  IN  IF hits = {}
        THEN [separator |-> Len(Separators), hasNew |-> FALSE]
        ELSE LET i == CHOOSE h \in hits : \A o \in hits : h <= o
             IN  [separator |-> i, hasNew |-> Separators[i] # <<>>]

\* splitOnSeparator with keepSeparator: text.split(/(?=separator)/), or
\* text.split("") for the empty separator; the split that starts at `pos`
\* ends right before the next occurrence of the separator.
SplitAt(text, r, sep, pos) ==
  IF sep = <<>> THEN Range(pos, pos)
  ELSE LET later == {p \in Occurrences(text, r, sep) : p > pos}
       IN  IF later = {} THEN Range(pos, r.to)
           ELSE Range(pos, (CHOOSE p \in later : \A o \in later : p <= o) - 1)

\* joinDocs: docs.join(separator).trim(), null when nothing is left.  With
\* keepSeparator the joining separator is "" and the joined splits are the
\* range they cover.
JoinDocsUntrimmed(text, r) == r

JoinDocs(text, r) ==
  LET kept == {k \in 1..Len(text) :
                 /\ text[k].from <= r.to /\ r.from <= text[k].to
                 /\ text[k].c \notin WhiteSpace}
  IN  IF kept = {} THEN EmptyRange
      ELSE LET lo == CHOOSE k \in kept : \A o \in kept : k <= o
               hi == CHOOSE k \in kept : \A o \in kept : k >= o
           IN  Range(Max(text[lo].from, r.from), Min(text[hi].to, r.to))

\* if ((await this.lengthFunction(s)) < this.chunkSize)
IsGoodSplit(len) == len < chunkSize

\* if (total + _len + currentDoc.length * separator.length > this.chunkSize),
\* the joining separator being "".
OverflowsNever(total, len, count) == FALSE

Overflows(total, len, count) == total + len + count * 0 > chunkSize

\* while (total > this.chunkOverlap ||
\*        (total + _len + currentDoc.length * separator.length > this.chunkSize
\*         && total > 0))
KeepsPoppingBelowOverlap(total, len, count) ==
  total >= chunkOverlap \/ (Overflows(total, len, count) /\ total > 0)

KeepsPopping(total, len, count) ==
  total > chunkOverlap \/ (Overflows(total, len, count) /\ total > 0)
\* The texts handed to the splitter, from runs of one character.
RECURSIVE Repeat(_, _)
Repeat(pieces, k) == IF k = 0 THEN <<>> ELSE pieces \o Repeat(pieces, k - 1)

ClassKeyword == << <<"c", 1>>, <<"l", 1>>, <<"a", 1>>, <<"s", 2>>, <<" ", 1>> >>

LetKeyword == << <<"l", 1>>, <<"e", 1>>, <<"t", 1>>, <<" ", 1>> >>

ChunkTexts ==
  { TextFrom(pieces, 1) : pieces \in
      \* the empty text, blank texts and short texts with and without
      \* whitespace at their ends
      { <<>>,
        << <<" ", 3>> >>,
        << <<"\n", 1>> >>,
        << <<"x", 10>> >>,
        << <<"x", 10>>, <<"\n", 1>> >>,
        << <<" ", 2>>, <<"x", 10>> >>,
        << <<"\t", 1>>, <<"x", 5>>, <<"\t", 1>>, <<"y", 5>> >>,
        << <<"x", 5>>, <<"\n", 3>>, <<"y", 5>> >>,
        \* one word with no separator in it
        << <<"x", chunkSize - 1>> >>,
        << <<"x", chunkSize>> >>,
        << <<"x", chunkSize + 1>> >>,
        << <<"x", chunkSize>>, <<"y", chunkSize>>, <<"z", 400>> >>,
        \* a word longer than a chunk between short words
        << <<"x", 50>>, <<" ", 1>>, <<"y", 1200>>, <<" ", 1>>, <<"z", 50>> >>,
        \* declarations: a class with a body of one long word, a let
        << <<"x", 600>>, <<"\n", 2>> >> \o ClassKeyword \o
          << <<"y", 1500>>, <<"\n", 2>> >> \o LetKeyword \o << <<"z", 300>>, <<"\n", 1>> >> }
      \cup
      \* prose, lines and paragraphs of 1 .. MaxWords words
      UNION { { Repeat(<< <<"x", 99>>, <<" ", 1>> >>, k),
                Repeat(<< <<"x", 332>>, <<" ", 1>>, <<"y", 1>>, <<" ", 1>> >>, k),
                Repeat(<< <<"x", 300>>, <<"\n", 1>> >>, k),
                Repeat(<< <<"x", 450>>, <<"\n", 2>> >>, k) } : k \in 1..MaxWords } }

\* One call of _splitText: its text (a range of the input), the separator it
\* picked, whether newSeparators is defined, the start of the next split of
\* the for loop, the splits collected in goodSplits (consecutive, so the
\* range they cover), the split `s` under the loop and finalChunks.
NewFrame(text, r, first) ==
  LET pick == PickSeparator(text, r, first)
  IN  [r |-> r, separator |-> pick.separator, hasNew |-> pick.hasNew,
       pos |-> r.from, goodSplits |-> EmptyRange, s |-> EmptyRange,
       finalChunks |-> <<>>]

TopFrame == c_stack[Len(c_stack)]

WithTop(frame) == [c_stack EXCEPT ![Len(c_stack)] = frame]

\* mergeSplits(goodSplits, "") is called.
NewMerge(splits, ret) ==
  [pos |-> splits.from, last |-> splits.to, d |-> EmptyRange,
   currentDoc |-> EmptyRange, count |-> 0, total |-> 0, docs |-> <<>>, ret |-> ret]

\* The split of the current call that starts at a position.
SplitOfTop(pos) ==
  SplitAt(c_text, TopFrame.r, Separators[TopFrame.separator], pos)

\* docs.push(doc) unless joinDocs gave null.
PushDoc(docs, doc) == IF RangeLen(doc) > 0 THEN Append(docs, doc) ELSE docs

\* createDocuments([content]) -> splitText(text) -> _splitText(text, separators)
CreateDocuments ==
  /\ c_pc = "idle"
  /\ \E text \in ChunkTexts :
       /\ c_text' = text
       /\ c_stack' = << NewFrame(text, Range(1, TextLength(text)), 1) >>
  /\ c_pc' = "loop"
  /\ UNCHANGED <<c_merge, c_chunks>>
  /\ UNCHANGED notChunk

\* for (const s of splits): a split shorter than chunkSize joins goodSplits;
\* a longer one first has goodSplits merged.
SplitLoop ==
  /\ c_pc = "loop"
  /\ LET f == TopFrame
     IN  IF f.pos > f.r.to
           THEN c_pc' = "tail" /\ UNCHANGED <<c_stack, c_merge>>
           ELSE LET s == SplitOfTop(f.pos)
                IN  IF IsGoodSplit(RangeLen(s))
                      THEN /\ c_stack' = WithTop(
                                [f EXCEPT !.pos = s.to + 1,
                                          !.goodSplits =
                                             IF RangeLen(f.goodSplits) = 0 THEN s
                                             ELSE Range(f.goodSplits.from, s.to)])
                           /\ c_pc' = "loop"
                           /\ UNCHANGED c_merge
                      ELSE /\ c_stack' = WithTop([f EXCEPT !.pos = s.to + 1, !.s = s])
                           /\ IF RangeLen(f.goodSplits) > 0
                                THEN /\ c_merge' = NewMerge(f.goodSplits, "big")
                                     /\ c_pc' = "merge"
                                ELSE /\ c_merge' = c_merge
                                     /\ c_pc' = "big"
  /\ UNCHANGED <<c_text, c_chunks>>
  /\ UNCHANGED notChunk

\* The split is not shorter than chunkSize: pushed as it is when there is no
\* separator left, split again with the remaining separators otherwise.
SplitBig ==
  /\ c_pc = "big"
  /\ LET f == TopFrame
     IN  IF ~f.hasNew
           THEN c_stack' = WithTop([f EXCEPT !.finalChunks = Append(f.finalChunks, f.s)])
           ELSE c_stack' = Append(c_stack, NewFrame(c_text, f.s, f.separator + 1))
  /\ c_pc' = "loop"
  /\ UNCHANGED <<c_text, c_merge, c_chunks>>
  /\ UNCHANGED notChunk

\* After the loop: if (goodSplits.length) merge them.
SplitTail ==
  /\ c_pc = "tail"
  /\ IF RangeLen(TopFrame.goodSplits) > 0
       THEN c_merge' = NewMerge(TopFrame.goodSplits, "return") /\ c_pc' = "merge"
       ELSE c_merge' = c_merge /\ c_pc' = "return"
  /\ UNCHANGED <<c_text, c_stack, c_chunks>>
  /\ UNCHANGED notChunk

\* return finalChunks: to the caller's finalChunks.push(...otherInfo), or to
\* createDocuments, which makes one document of each chunk.
SplitReturn ==
  /\ c_pc = "return"
  /\ IF Len(c_stack) = 1
       THEN /\ c_chunks' = TopFrame.finalChunks
            /\ c_stack' = <<>>
            /\ c_pc' = "done"
       ELSE LET caller == c_stack[Len(c_stack) - 1]
            IN  /\ c_stack' = Append(SubSeq(c_stack, 1, Len(c_stack) - 2),
                                     [caller EXCEPT !.finalChunks =
                                        caller.finalChunks \o TopFrame.finalChunks])
                /\ c_chunks' = c_chunks
                /\ c_pc' = "loop"
  /\ UNCHANGED <<c_text, c_merge>>
  /\ UNCHANGED notChunk

\* mergeSplits, for (const d of splits): d fits and is pushed to currentDoc,
\* or currentDoc is joined into a doc first.
MergeIter ==
  /\ c_pc = "merge"
  /\ c_merge.pos <= c_merge.last
  /\ LET m == c_merge
         d == SplitOfTop(m.pos)
     IN  IF Overflows(m.total, RangeLen(d), m.count) /\ m.count > 0
           THEN /\ c_merge' = [m EXCEPT !.d = d,
                                        !.docs = PushDoc(m.docs, JoinDocs(c_text, m.currentDoc))]
                /\ c_pc' = "merge_pop"
           ELSE /\ c_merge' = [m EXCEPT !.pos = d.to + 1,
                                        !.currentDoc =
                                           IF m.count = 0 THEN d
                                           ELSE Range(m.currentDoc.from, d.to),
                                        !.count = m.count + 1,
                                        !.total = m.total + RangeLen(d)]
                /\ c_pc' = "merge"
  /\ UNCHANGED <<c_text, c_stack, c_chunks>>
  /\ UNCHANGED notChunk

\* The while loop: total -= length(currentDoc[0]); currentDoc.shift()
MergePop ==
  /\ c_pc = "merge_pop"
  /\ KeepsPopping(c_merge.total, RangeLen(c_merge.d), c_merge.count)
  /\ LET m == c_merge
         first == SplitOfTop(m.currentDoc.from)
     IN  c_merge' = [m EXCEPT !.total = m.total - RangeLen(first),
                              !.count = m.count - 1,
                              !.currentDoc =
                                 IF m.count = 1 THEN EmptyRange
                                 ELSE Range(first.to + 1, m.currentDoc.to)]
  /\ c_pc' = "merge_pop"
  /\ UNCHANGED <<c_text, c_stack, c_chunks>>
  /\ UNCHANGED notChunk

\* The while loop ends: currentDoc.push(d); total += _len
MergePush ==
  /\ c_pc = "merge_pop"
  /\ ~KeepsPopping(c_merge.total, RangeLen(c_merge.d), c_merge.count)
  /\ LET m == c_merge
     IN  c_merge' = [m EXCEPT !.pos = m.d.to + 1,
                              !.currentDoc =
                                 IF m.count = 0 THEN m.d
                                 ELSE Range(m.currentDoc.from, m.d.to),
                              !.count = m.count + 1,
                              !.total = m.total + RangeLen(m.d)]
  /\ c_pc' = "merge"
  /\ UNCHANGED <<c_text, c_stack, c_chunks>>
  /\ UNCHANGED notChunk

\* After the loop the rest of currentDoc is joined; mergeSplits returns and
\* _splitText pushes the docs to finalChunks (and empties goodSplits).
MergeEnd ==
  /\ c_pc = "merge"
  /\ c_merge.pos > c_merge.last
  /\ LET docs == PushDoc(c_merge.docs, JoinDocs(c_text, c_merge.currentDoc))
     IN  c_stack' = WithTop([TopFrame EXCEPT !.finalChunks = TopFrame.finalChunks \o docs,
                                             !.goodSplits = EmptyRange])
  /\ c_pc' = c_merge.ret
  /\ c_merge' = NoMerge
  /\ UNCHANGED <<c_text, c_chunks>>
  /\ UNCHANGED notChunk

InitChunk ==
  InitEmbedIdle /\ InitStoreEmpty /\ InitSearchIdle /\ InitIngestIdle /\ InitOthersIdle

NextChunk ==
  \/ CreateDocuments
  \/ SplitLoop
  \/ SplitBig
  \/ SplitTail
  \/ SplitReturn
  \/ MergeIter
  \/ MergePop
  \/ MergePush
  \/ MergeEnd

SpecChunk == InitChunk /\ [][NextChunk]_vars

(***************************************************************************)
(* Claims about the embedding client (checked under SpecEmbed).            *)
(***************************************************************************)
CountEvents(kind) == Cardinality({p \in 1..Len(events) : events[p] = kind})

CeilDiv(n, d) == (n + d - 1) \div d

RECURSIVE ConcatBatches(_)
ConcatBatches(reqs) ==
  IF reqs = <<>> THEN <<>>
  ELSE ConcatBatches(SubSeq(reqs, 1, Len(reqs) - 1)) \o reqs[Len(reqs)].batch

BatchDone == e_mode = "many" /\ e_pc = "done"

\* What generateEmbedding returns for a text when its request succeeds: the
\* model's vector for the text cut to 8000 characters.
EmbedOne(text) ==
  EmbeddingModel([base |-> text.base, len |-> Min(text.len, 8000)])

\* C4: when every request succeeds, generateBatchEmbeddings returns exactly one
\* vector per input text, and the i-th vector is the one generateEmbedding
\* returns for the i-th text (the embedding model's vector for that text cut to
\* 8000 characters), for inputs of one batch and of several batches alike.
C4_BatchPreservesOrderAndLength ==
  /\ (e_mode = "one" /\ e_pc = "done" /\ e_raised = Null) =>
       e_result = EmbedOne(e_texts[1])
  /\ (BatchDone /\ e_raised = Null) =>
       /\ Len(e_result) = Len(e_texts)
       /\ \A k \in 1..Len(e_texts) : e_result[k] = EmbedOne(e_texts[k])

C4_Witness ==
  /\ BatchDone /\ e_raised = Null
  /\ Len(requests) = 3
  /\ Len(e_result) = 2 * batchSize + 1
  /\ \E k \in 1..Len(e_texts) : e_texts[k].len > 8000
  /\ e_result[1] # e_result[batchSize + 1]

\* C5: generateBatchEmbeddings issues ceil(n/100) requests for n texts (none
\* for an empty input), never more; every batch but the last holds exactly 100
\* texts, the last holds at least one; the batches in request order
\* concatenate to the input.
C5_BatchPartition ==
  /\ e_mode = "many" => Len(requests) <= CeilDiv(Len(e_texts), 100)
  /\ (BatchDone /\ e_raised = Null) =>
       /\ Len(requests) = CeilDiv(Len(e_texts), 100)
       /\ \A r \in 1..Len(requests) :
            /\ r < Len(requests) => Len(requests[r].batch) = 100
            /\ Len(requests[r].batch) \in 1..100
            /\ Len(requests[r].input) = Len(requests[r].batch)
            /\ requests[r].offset = 100 * (r - 1)
       /\ ConcatBatches(requests) = e_texts

C5_Witness ==
  /\ BatchDone
  /\ Len(e_texts) = 2 * batchSize + 1
  /\ Len(requests) = 3
  /\ Len(requests[3].batch) = 1

\* C6 as stated: a failed request aborts the call, no later batch is requested,
\* no partial list is returned, and the error thrown to the caller is an
\* EmbeddingFailure carrying the starting offset of the failed batch.
C6_FailureCarriesOffset ==
  (e_mode = "many" /\ e_raised # Null) =>
    /\ e_pc = "failed"
    /\ e_result = Null
    /\ events[Len(events)] = "fail"
    /\ "offset" \in DOMAIN e_error
    /\ e_error.offset = requests[Len(requests)].offset

\* C6 as amended: a failed request aborts the call, no later batch is
\* requested, no partial list is returned, and the error thrown to the caller
\* is the error the request raised, unchanged (it names no batch offset).
C6_FailurePropagatesUnchanged ==
  (e_mode = "many" /\ e_raised # Null) =>
    /\ e_pc = "failed"
    /\ e_result = Null
    /\ outstanding = 0
    /\ events[Len(events)] = "fail"
    /\ CountEvents("fail") = 1
    /\ e_error = e_raised
    /\ e_error \in ApiErrors
    /\ "offset" \notin DOMAIN e_error

C6_Witness ==
  /\ e_mode = "many" /\ e_pc = "failed"
  /\ Len(requests) = 2
  /\ Len(e_texts) > 2 * batchSize
  /\ Len(embeddings) = batchSize
  /\ e_error = e_raised

\* C7: in generateBatchEmbeddings a pause follows a successful response and
\* precedes the next request, every request but the first follows a pause, a
\* finished run of b batches has taken max(0, b-1) pauses and does not end on
\* one, and an input of at most 100 texts takes none.
C7_PauseBetweenBatches ==
  e_mode = "many" =>
    /\ \A p \in 1..Len(events) :
         /\ events[p] = "pause" =>
              /\ p > 1 /\ events[p - 1] = "resp"
              /\ p < Len(events) => events[p + 1] = "req"
         /\ (events[p] = "req" /\ p > 1) => events[p - 1] = "pause"
    /\ Len(e_texts) <= 100 => CountEvents("pause") = 0
    /\ e_pc \in {"done", "failed"} =>
         /\ CountEvents("pause") = IF Len(requests) = 0 THEN 0 ELSE Len(requests) - 1
         /\ events # <<>> => events[Len(events)] # "pause"
    /\ e_pc = "done" =>
         CountEvents("pause") =
           IF Len(e_texts) = 0 THEN 0 ELSE CeilDiv(Len(e_texts), 100) - 1

C7_Witness ==
  /\ BatchDone
  /\ Len(requests) = 3
  /\ CountEvents("pause") = 2
  /\ events = <<"req", "resp", "pause", "req", "resp", "pause", "req", "resp">>

\* C8: within one generateBatchEmbeddings call at most one request is
\* outstanding, and every request but the first is issued when all earlier
\* requests have returned successfully.
C8_SequentialBatches ==
  e_mode = "many" =>
    /\ outstanding \in {0, 1}
    /\ outstanding = CountEvents("req") - CountEvents("resp") - CountEvents("fail")
    /\ \A p \in 1..Len(events) :
         events[p] = "req" =>
           LET before == {q \in 1..(p - 1) : TRUE}
           IN  /\ Cardinality({q \in before : events[q] = "req"})
                    = Cardinality({q \in before : events[q] = "resp"})
               /\ \A q \in before : events[q] # "fail"

C8_Witness ==
  /\ e_mode = "many" /\ e_pc = "await"
  /\ Len(requests) = 3
  /\ outstanding = 1
  /\ CountEvents("resp") = 2

\* C9: every text submitted to the embedding model, by generateEmbedding and
\* by generateBatchEmbeddings, has at most 8000 characters; it is the first
\* 8000 characters of the caller's text when that is longer, and the caller's
\* text itself otherwise.
C9_InputTruncated ==
  \A r \in 1..Len(requests) :
    /\ Len(requests[r].input) = Len(requests[r].batch)
    /\ \A k \in 1..Len(requests[r].batch) :
         LET given == e_texts[requests[r].offset + k]
             sent  == requests[r].input[k]
         IN  /\ requests[r].batch[k] = given
             /\ sent.len <= 8000
             /\ sent.base = given.base
             /\ given.len > 8000 => sent.len = 8000
             /\ given.len <= 8000 => sent = given

C9_Witness ==
  /\ e_mode = "many"
  /\ Len(requests) = 2
  /\ \E k \in 1..batchSize :
       /\ requests[2].batch[k].len = 2 * MaxInputChars
       /\ requests[2].input[k].len = MaxInputChars
  /\ \E k \in 1..batchSize :
       /\ requests[2].batch[k].len = MaxInputChars - 1
       /\ requests[2].input[k] = requests[2].batch[k]

\* generateEmbedding cuts a longer text as well.
C9_WitnessSingle ==
  /\ e_mode = "one" /\ e_pc = "done"
  /\ e_texts[1].len = MaxInputChars + 1
  /\ requests[1].input[1].len = MaxInputChars

(***************************************************************************)
(* Claims about similarity search (checked under SpecSearch).              *)
(***************************************************************************)
\* The search_similar_chunks call of the search command has returned rows.
SearchReturned == s_pc \in {"print", "context", "exit0"}

\* The stored rows the call's project filter admits.
SearchCandidates ==
  {dc \in document_chunks :
     s_args.project_filter = NoId \/ dc.project_id = s_args.project_filter}

\* The score of a stored row against the call's query vector.
SearchScore(dc) == 10000 - CosineDistance(dc.embedding, s_args.query_embedding)

\* C2: every row search_similar_chunks returns carries the score
\* 1 - cosine distance of its stored vector to the query vector, and that score
\* is strictly greater than the threshold (a row scoring exactly the threshold
\* is left out); with threshold 0.7 over one chunk scoring 0.95 and one scoring
\* 0.5 the result is exactly the 0.95 chunk.
C2_ScoreAboveThreshold ==
  SearchReturned =>
    /\ \A k \in 1..Len(s_results) :
         /\ s_results[k].similarity > s_args.similarity_threshold
         /\ \E dc \in SearchCandidates :
              dc.id = s_results[k].id /\ s_results[k].similarity = SearchScore(dc)
    /\ \A dc \in SearchCandidates :
         SearchScore(dc) = s_args.similarity_threshold =>
           \A k \in 1..Len(s_results) : s_results[k].id # dc.id
    /\ ( /\ s_args.similarity_threshold = 7000
         /\ Cardinality(SearchCandidates) = 2
         /\ {SearchScore(dc) : dc \in SearchCandidates} = {9500, 5000} )
       => /\ Len(s_results) = 1
          /\ s_results[1].similarity = 9500

C2_Witness ==
  /\ SearchReturned
  /\ s_args.similarity_threshold = 7000
  /\ {SearchScore(dc) : dc \in SearchCandidates} = {9500, 7000, 5000}
  /\ Len(s_results) = 1
  /\ s_results[1].similarity = 9500

\* C3: the rows search_similar_chunks returns are distinct qualifying rows in
\* non-increasing score order, at most match_count of them and exactly
\* min(match_count, number of qualifying rows), and no qualifying row left out
\* scores strictly higher than a returned one.
C3_RankedAndCapped ==
  SearchReturned =>
    LET qualifying == {dc \in SearchCandidates :
                         SearchScore(dc) > s_args.similarity_threshold}
        returned == {s_results[k].id : k \in 1..Len(s_results)}
    IN  /\ \A k \in 1..(Len(s_results) - 1) :
             s_results[k].similarity >= s_results[k + 1].similarity
        /\ Len(s_results) <= s_args.match_count
        /\ Len(s_results) = Min(s_args.match_count, Cardinality(qualifying))
        /\ Cardinality(returned) = Len(s_results)
        /\ returned \subseteq {dc.id : dc \in qualifying}
        /\ \A dc \in qualifying :
             dc.id \notin returned =>
               \A k \in 1..Len(s_results) : SearchScore(dc) <= s_results[k].similarity

C3_Witness ==
  /\ SearchReturned
  /\ s_options.limit = 2
  /\ s_args.match_count = 2
  /\ Cardinality({dc \in SearchCandidates :
                    SearchScore(dc) > s_args.similarity_threshold}) >= 3
  /\ Len(s_results) = 2
  /\ s_results[1].similarity > s_results[2].similarity
  /\ \E dc \in SearchCandidates :
       /\ \A k \in 1..2 : s_results[k].id # dc.id
       /\ SearchScore(dc) = s_results[2].similarity

(***************************************************************************)
(* Claims about ingestion (checked under SpecIngest).                      *)
(***************************************************************************)
\* The ingestion loop of the current run has run to its end.
IngestLoopDone == i_pc = "kb"

\* The rows stored for the project and origin path of a document.
RowsAt(doc) ==
  {dc \in document_chunks :
     dc.project_id = doc.metadata.projectId /\ dc.file_path = doc.metadata.filePath}

\* C1: the store holds at most one chunk per (project, origin path), whatever
\* ingestion runs came before; a document stored for a path that already had a
\* chunk leaves one row there, with the document's content, metadata and
\* embedding.
C1_OneChunkPerProjectPath ==
  /\ \A a \in document_chunks : \A b \in document_chunks :
       (a.project_id = b.project_id /\ a.file_path = b.file_path) => a.id = b.id
  /\ IngestLoopDone =>
       \A k \in 1..Len(i_stored) :
         LET doc == processors[i_stored[k]]
         IN  \A dc \in RowsAt(doc) :
               /\ dc.chunk_content = doc.content
               /\ dc.metadata = doc.metadata
               /\ dc.embedding = EmbeddingModel(TruncateInput(doc.content))

\* C10: a document whose embedding call or upsert fails is logged, and the run
\* goes on: when the loop ends every document of the run has been attempted
\* and every document that did not fail is stored.
C10_FailureLoggedAndSkipped ==
  /\ i_failed \subseteq i_logged
  /\ IngestLoopDone =>
       /\ {i_attempted[k] : k \in 1..Len(i_attempted)} = 1..Len(processors)
       /\ {i_stored[k] : k \in 1..Len(i_stored)} = (1..Len(processors)) \ i_failed

\* The current run has ended, with status 0 ("exit0") or 1 ("exit1").
IngestEnded == i_pc \in {"exit0", "exit1"}

\* The documents (by position) the current run stored.
StoredDocs == {i_stored[k] : k \in 1..Len(i_stored)}

\* C11: a run in which a document failed to embed or to be stored ends with a
\* non-zero status, and a run that ends with status 0 stored every document.
C11_ExitStatusReflectsFailures ==
  /\ (IngestEnded /\ i_failed # {}) => i_pc = "exit1"
  /\ i_pc = "exit0" => StoredDocs = 1..Len(processors)

\* The run was given a repository in which some listed file cannot be read.
UnreadableRepo ==
  /\ i_options # Null
  /\ i_options.repo # NoString \/ i_options.path # NoString
  /\ ReadThrows(i_repo)

\* A row of the project of the run holds the chunk c of the file.
ChunkStored(file, c) ==
  \E dc \in document_chunks :
    /\ dc.project_id = i_project.id
    /\ dc.file_path = ChunkPath(file, c - 1, Len(file.chunks))
    /\ dc.chunk_content = file.chunks[c]

C13_MissingCredentialAbortsBeforeWork ==
  i_thrown = "config" =>
    /\ projects = i_before.projects
    /\ processors = <<>>
    /\ document_chunks = i_before.document_chunks

\* The run is for a name the table projects already held when it started.
ProjectExisted == i_options # Null /\ \E p \in i_before.projects : p.name = i_options.name

ProjectBefore == CHOOSE p \in i_before.projects : p.name = i_options.name

\* C14 as stated: a run for an existing name that ends with status 0 leaves
\* the project row with its identity and with the description, technology
\* tags and repository reference of the run's options.
C14_ProjectUpdatedOnReingest ==
  (ProjectExisted /\ i_pc = "exit0") =>
    \E p \in projects :
      /\ p.id = ProjectBefore.id
      /\ p.name = i_options.name
      /\ p.description = ProjectValues(i_options).description
      /\ p.tech_stack = ProjectValues(i_options).tech_stack
      /\ p.repository_url = ProjectValues(i_options).repository_url

\* C14 amended: a run for an existing name keeps the project row exactly as
\* it found it (same identity, description, technology tags and repository
\* reference), creates no other row for the name, and works on that row.
C14_ProjectKeptUnchanged ==
  ProjectExisted =>
    /\ {p \in projects : p.name = i_options.name} = {ProjectBefore}
    /\ i_project # Null => i_project = ProjectBefore

C14_Witness ==
  /\ ProjectExisted
  /\ i_pc = "exit0"
  /\ ProjectValues(i_options).description # ProjectBefore.description
  /\ ProjectValues(i_options).tech_stack # ProjectBefore.tech_stack
  /\ ProjectValues(i_options).repository_url # ProjectBefore.repository_url
  /\ ProjectBefore \in projects

\* The documents of `processors` at positions from + 1 .. from + n.
DocsFrom(from, n) == SubSeq(processors, from + 1, from + n)

\* The files of the repository that processCodeRepository turns into documents.
ProcessedFiles == SelectSeq(i_repo, shouldProcessFile)

RECURSIVE DocsBefore(_)
DocsBefore(k) ==
  IF k = 1 THEN 0 ELSE DocsBefore(k - 1) + Len(ProcessedFiles[k - 1].chunks)

\* The code documents have been pushed to `processors`.
CodeProcessed ==
  /\ i_pc \in {"airtable", "loop", "embed", "upsert", "delay", "kb", "exit0"}
  /\ i_options.repo # NoString \/ i_options.path # NoString

\* C15: a file cut into k > 1 chunks gives k documents, in chunk order, whose
\* origin paths are the file path followed by #chunk-1 .. #chunk-k, pairwise
\* distinct; a file cut into one chunk gives one document at the bare path.
C15_ChunkOriginPaths ==
  CodeProcessed =>
    \A f \in 1..Len(ProcessedFiles) :
      LET file == ProcessedFiles[f]
          k    == Len(file.chunks)
          docs == DocsFrom(DocsBefore(f), k)
      IN  /\ Len(docs) = k
          /\ \A i \in 1..k : docs[i].content = file.chunks[i]
          /\ k = 1 => docs[1].metadata.filePath = file.path
          /\ k > 1 => \A i \in 1..k :
                        docs[i].metadata.filePath = file.path \o <<"#", "chunk-", i>>
          /\ \A i \in 1..k : \A j \in 1..k :
               docs[i].metadata.filePath = docs[j].metadata.filePath => i = j

C15_Witness ==
  /\ CodeProcessed
  /\ \E f \in 1..Len(ProcessedFiles) :
       /\ Len(ProcessedFiles[f].chunks) = 3
       /\ processors[DocsBefore(f) + 3].metadata.filePath =
            ProcessedFiles[f].path \o <<"#", "chunk-", 3>>
  /\ \E f \in 1..Len(ProcessedFiles) :
       /\ Len(ProcessedFiles[f].chunks) = 1
       /\ processors[DocsBefore(f) + 1].metadata.filePath = ProcessedFiles[f].path

(***************************************************************************)
(* Claims about the search command (checked under SpecSearch).             *)
(***************************************************************************)
\* The threshold the caller asked for: the --threshold option, 0.6 without it.
RequestedThreshold ==
  IF s_options.threshold = Undefined THEN 6000 ELSE s_options.threshold

\* The search command has called search_similar_chunks.
SearchCalled == s_args # Null

\* generateQueryContext has called search_similar_chunks for the command.
ContextSearched == k_args # Null

\* The interactive search uses the requested threshold.
InteractiveUsesThreshold ==
  SearchCalled => s_args.similarity_threshold = RequestedThreshold

\* The context document is computed with the requested threshold.
ContextUsesThreshold ==
  ContextSearched => k_args.similarity_threshold = RequestedThreshold

\* C16: with --threshold t (0 included) both the interactive search and the
\* search behind the context document use t; 0.6 is used only without the
\* option.
C16_CallerThresholdUsed == InteractiveUsesThreshold /\ ContextUsesThreshold

\* The rows of any project that score above the threshold of the call.
QualifyingAnywhere(args) ==
  {dc \in document_chunks :
     Similarity(dc.embedding, args.query_embedding) > args.similarity_threshold}

\* What C17 says of one call of search_similar_chunks and its result.
ScopedToFilter(args, results) ==
  /\ args.project_filter # NoId =>
       /\ \A k \in 1..Len(results) : results[k].project_id = args.project_filter
       /\ Len(results) =
            Min(args.match_count,
                Cardinality({dc \in QualifyingAnywhere(args) :
                               dc.project_id = args.project_filter}))
  /\ args.project_filter = NoId =>
       /\ Len(results) = Min(args.match_count, Cardinality(QualifyingAnywhere(args)))
       /\ \A dc \in QualifyingAnywhere(args) :
            \/ \E k \in 1..Len(results) : results[k].id = dc.id
            \/ /\ Len(results) = args.match_count
               /\ \A k \in 1..Len(results) :
                    results[k].similarity >=
                      Similarity(dc.embedding, args.query_embedding)

\* C17: a search with a project filter returns rows of that project only; a
\* search without one draws on the rows of every project.  The command
\* passes the id of the project named by --project, and no filter without
\* the option; the generator passes the project id it was given.
C17_ProjectScoping ==
  /\ SearchReturned =>
       /\ ScopedToFilter(s_args, s_results)
       /\ s_options.project = NoString => s_args.project_filter = NoId
       /\ s_options.project # NoString =>
            \E p \in projects : p.name = s_options.project /\ s_args.project_filter = p.id
  /\ ContextSearched =>
       /\ ScopedToFilter(k_args, k_results)
       /\ k_args.project_filter = s_projectId

C17_Witness ==
  /\ SearchReturned
  /\ s_options.project = "alpha"
  /\ Len(s_results) = 1
  /\ s_args.match_count > 1
  /\ \E dc \in QualifyingAnywhere(s_args) :
       /\ dc.project_id # s_args.project_filter
       /\ Similarity(dc.embedding, s_args.query_embedding) > s_results[1].similarity

\* Without --project the rows of two projects are returned together.
C17_WitnessNoFilter ==
  /\ SearchReturned
  /\ s_options.project = NoString
  /\ \E j \in 1..Len(s_results) : \E k \in 1..Len(s_results) :
       s_results[j].project_id # s_results[k].project_id

(***************************************************************************)
(* Claims about the text splitter (checked under SpecChunk).               *)
(***************************************************************************)
\* createDocuments has returned: c_chunks are the chunks of c_text.
SplitterDone == c_pc = "done"

WholeText == Range(1, TextLength(c_text))

\* The text has a character that is not white space.
NotBlank == \E k \in 1..Len(c_text) : c_text[k].c \notin WhiteSpace

\* The text has no white space at all.
NoWhiteSpace == \A k \in 1..Len(c_text) : c_text[k].c \notin WhiteSpace

\* C18 as stated, for a text that is not empty: a text shorter than 1000
\* characters comes back as exactly one chunk, equal to the text.
C18_ShortTextOneEqualChunk ==
  (SplitterDone /\ 0 < TextLength(c_text) /\ TextLength(c_text) < chunkSize) =>
    /\ Len(c_chunks) = 1
    /\ Content(c_text, c_chunks[1]) = Content(c_text, WholeText)

\* The range is the text without its leading and trailing white space.
IsTrimmedText(r) ==
  /\ r.from <= r.to
  /\ CharAt(c_text, r.from) \notin WhiteSpace
  /\ CharAt(c_text, r.to) \notin WhiteSpace
  /\ \A k \in 1..Len(c_text) :
       (c_text[k].to < r.from \/ c_text[k].from > r.to) => c_text[k].c \in WhiteSpace

\* C18 amended: a text shorter than 1000 characters comes back as exactly
\* one chunk, the text without its leading and trailing white space; a text
\* that is empty or all white space comes back as no chunk.
C18_ShortTextOneTrimmedChunk ==
  (SplitterDone /\ TextLength(c_text) < chunkSize) =>
    IF NotBlank
      THEN Len(c_chunks) = 1 /\ IsTrimmedText(c_chunks[1])
      ELSE c_chunks = <<>>

C18_Witness ==
  /\ SplitterDone
  /\ TextLength(c_text) < chunkSize
  /\ Len(c_text) > 1
  /\ CharAt(c_text, TextLength(c_text)) = "\n"
  /\ Len(c_chunks) = 1
  /\ Content(c_text, c_chunks[1]) # Content(c_text, WholeText)

\* C19: no chunk is longer than 1000 characters.  The separator list ends
\* with the empty separator, so no unit is indivisible and the bound has no
\* exception.
C19_ChunkWithinSize ==
  SplitterDone => \A k \in 1..Len(c_chunks) : RangeLen(c_chunks[k]) <= chunkSize

C19_Witness ==
  /\ SplitterDone
  /\ Len(c_chunks) >= 3
  /\ TextLength(c_text) > 2 * chunkSize
  /\ \E k \in 1..Len(c_chunks) : RangeLen(c_chunks[k]) = chunkSize

\* Two strings, as runs, one after the other.
Glue(a, b) ==
  IF a = <<>> THEN b
  ELSE IF b = <<>> THEN a
  ELSE IF a[Len(a)][1] = b[1][1]
         THEN SubSeq(a, 1, Len(a) - 1)
              \o << <<b[1][1], a[Len(a)][2] + b[1][2]>> >> \o Tail(b)
         ELSE a \o b

\* The first k chunks put together again: the first chunk whole, every later
\* one without its first 200 characters.
RECURSIVE Rejoined(_)
Rejoined(k) ==
  IF k = 0 THEN <<>>
  ELSE Glue(Rejoined(k - 1),
            Content(c_text, IF k = 1 THEN c_chunks[1]
                            ELSE Range(c_chunks[k].from + chunkOverlap, c_chunks[k].to)))

RoundTrips == Rejoined(Len(c_chunks)) = Content(c_text, WholeText)

\* C20 as stated: for every text the chunks, each after the first without
\* its first 200 characters, put together give the text.
C20_RoundTrip == SplitterDone => RoundTrips

\* C20 amended: the round trip holds for a text with no white space in it
\* (no separator but the empty one occurs, so the chunks are windows of
\* 1000 characters that overlap by exactly 200).
C20_RoundTripWithoutWhiteSpace == (SplitterDone /\ NoWhiteSpace) => RoundTrips

C20_Witness ==
  /\ SplitterDone
  /\ NoWhiteSpace
  /\ Len(c_chunks) = 3
  /\ Len(c_text) = 3
  /\ c_chunks[2].from = c_chunks[1].to - chunkOverlap + 1
  /\ RoundTrips

(***************************************************************************)
(* Claims about the ingestion loop (checked under SpecBatches and          *)
(* SpecIngest).                                                            *)
(***************************************************************************)
Ascending(seq) == \A a, b \in 1..Len(seq) : a < b => seq[a] < seq[b]

\* C27: the documents whose embedding was requested are the documents 1, 2,
\* ... of the run, each once and in source order; a stored document was
\* attempted, did not fail and added one row; no document is attempted after
\* the loop has passed it, and the loop ends having attempted every document.
C27_EachDocumentAttemptedOnce ==
  /\ i_attempted = [k \in 1..Len(i_attempted) |-> k]
  /\ Ascending(i_stored)
  /\ \A k \in 1..Len(i_stored) :
       i_stored[k] \in 1..Len(i_attempted) /\ i_stored[k] \notin i_failed
  /\ i_failed \subseteq 1..Len(i_attempted)
  /\ Cardinality(document_chunks) = Cardinality(i_before.document_chunks) + Len(i_stored)
  /\ i_pc \in {"kb", "exit0"} => Len(i_attempted) = Len(processors)

C27_Witness ==
  /\ i_pc = "exit0"
  /\ Len(processors) = IngestBatch + 1
  /\ Len(i_attempted) = IngestBatch + 1
  /\ i_logged = {IngestBatch}
  /\ Len(i_stored) = IngestBatch
  /\ i_stored[IngestBatch] = IngestBatch + 1

\* The row without the id the table gave it.
WithoutId(row) == [f \in DOMAIN row \ {"id"} |-> row[f]]

\* C29: every stored chunk carries the embedding generateEmbedding returns
\* for its content; a row the run added is the row of a document whose
\* embedding call of this run succeeded; the upsert of a document follows
\* its own embedding call; a document whose embedding call failed is not
\* stored.
C29_EmbeddingPrecedesStorage ==
  /\ \A dc \in document_chunks : dc.embedding = EmbedOne(dc.chunk_content)
  /\ \A dc \in document_chunks \ i_before.document_chunks :
       \E k \in 1..Len(i_stored) :
         /\ i_stored[k] \in 1..Len(i_attempted)
         /\ i_stored[k] \notin i_logged
         /\ WithoutId(dc) = ChunkValues(processors[i_stored[k]],
                                        EmbedOne(processors[i_stored[k]].content))
  /\ i_pc = "upsert" =>
       /\ i_attempted # <<>>
       /\ i_attempted[Len(i_attempted)] = IngestDocIndex
       /\ i_embedding = EmbedOne(IngestDoc.content)
  /\ \A k \in 1..Len(i_stored) : i_stored[k] \notin i_logged

C29_Witness ==
  /\ i_pc = "exit0"
  /\ Len(processors) >= 3
  /\ i_logged = {2}
  /\ Len(i_stored) = Len(processors) - 1
  /\ \E dc \in document_chunks : dc.chunk_content.len > MaxInputChars
  /\ Cardinality(document_chunks) = Cardinality(i_before.document_chunks) + Len(i_stored)

(***************************************************************************)
(* Claims about the project filter of the search command (checked under    *)
(* SpecSearch).                                                            *)
(***************************************************************************)
\* The command was given --project.
ProjectNamed == s_options # Null /\ s_options.project # NoString

\* The command names a project the store does not hold.
ProjectMissing == ProjectNamed /\ SelectProjectByName(s_options.project) = Null

\* C30: a command that names a missing project never issues a search, never
\* generates a context document and does not end with status 0 (it ends with
\* status 1 at the lookup); a context document is generated only by a
\* command that asked for it, named a project and resolved it.
C30_MissingProjectStopsTheCommand ==
  /\ ProjectMissing =>
       /\ s_pc \in {"embed", "lookup", "exit1"}
       /\ s_args = Null
       /\ k_args = Null
       /\ files = {}
       /\ knowledge_contexts = {}
  /\ (k_args # Null \/ files # {} \/ knowledge_contexts # {}) =>
       /\ ProjectNamed
       /\ s_options.generateContext
       /\ SelectProjectByName(s_options.project) # Null
       /\ s_projectId = SelectProjectByName(s_options.project).id
       /\ \A f \in files : f.path[1] = s_projectId

C30_Witness ==
  /\ ProjectMissing
  /\ s_options.generateContext
  /\ s_pc = "exit1"
  /\ document_chunks # {}

C30_WitnessContext ==
  /\ files # {}
  /\ s_pc = "exit0"
  /\ s_options.project = "alpha"

(***************************************************************************)
(* Claims about project identity (checked under SpecRace).                 *)
(***************************************************************************)
\* The process has its project: it found one or created one.
HasProject(p) == concurrent[p].pc \in {"services", "exit0"}

\* C28: no two stored projects share a name; a process that has its project
\* holds the stored project of its name, which is the row found there before
\* unless the process created it; every stored chunk belongs to the stored
\* project of the process that wrote it; of the processes that ran for one
\* name at most one created the project.
C28_ProjectNamesUnique ==
  /\ \A a, b \in projects : a.name = b.name => a = b
  /\ \A p \in 1..MaxProcs :
       HasProject(p) =>
         /\ concurrent[p].project \in projects
         /\ concurrent[p].project.name = concurrent[p].options.name
         /\ concurrent[p].project = SelectProjectByName(concurrent[p].options.name)
  /\ \A dc \in document_chunks :
       \E p \in 1..MaxProcs :
         concurrent[p].pc = "exit0" /\ dc.project_id = concurrent[p].project.id
  /\ \A p, q \in 1..MaxProcs :
       (/\ p # q
        /\ concurrent[p].created
        /\ concurrent[q].created) => concurrent[p].options.name # concurrent[q].options.name

\* Two runs for the same new name both looked up before either inserted: one
\* created the project, the other was refused.
C28_Witness ==
  \E p, q \in 1..MaxProcs :
    /\ p # q
    /\ concurrent[p].options # Null
    /\ concurrent[q].options # Null
    /\ concurrent[p].options.name = "beta"
    /\ concurrent[q].options.name = "beta"
    /\ concurrent[p].created
    /\ concurrent[p].pc = "exit0"
    /\ concurrent[q].pc = "exit1"

(***************************************************************************)
(* Claims about the project reports (checked under SpecGenerate).          *)
(***************************************************************************)
\* The call without a query has written its reports.
ReportsWritten == g_pc = "returned" /\ g_query = NoQuery

\* The stored chunks of the project the call was made for.
ProjectChunks == {dc \in document_chunks : dc.project_id = g_projectId}

OfType(t) == {dc \in ProjectChunks : dc.source_type = t}

\* The overview the call has written.
Overview ==
  (CHOOSE f \in files : f.path = <<g_projectId, "project-overview.md", 0>>).content

RECURSIVE Total(_, _)
Total(stats, types) ==
  IF types = {} THEN 0
  ELSE LET t == CHOOSE t \in types : TRUE
       IN  stats[t] + Total(stats, types \ {t})

StepOrder == <<"received", "embedded", "searched", "grouped", "rendered">>

\* The call with a query has returned or thrown.
QueryEnded == g_query # NoQuery /\ g_pc \in {"returned", "failed"}

LastStep == g_steps[Len(g_steps)]

\* The steps passed before a failure, if there is one.
StepsPassed ==
  IF g_steps # <<>> /\ LastStep = "failed" THEN SubSeq(g_steps, 1, Len(g_steps) - 1)
  ELSE g_steps

\* The steps are passed in the order of StepOrder, none skipped or repeated.
StepsInOrder ==
  /\ Len(StepsPassed) <= Len(StepOrder)
  /\ StepsPassed = SubSeq(StepOrder, 1, Len(StepsPassed))

SearchSucceeded == \E k \in 1..Len(g_steps) : g_steps[k] = "searched"

\* C22 as stated: the steps come in order, the call ends rendered or failed,
\* and a call whose search succeeded ends rendered.
C22_RenderedOrFailed ==
  /\ StepsInOrder
  /\ QueryEnded => LastStep \in {"rendered", "failed"}
  /\ (QueryEnded /\ SearchSucceeded) => LastStep = "rendered"

\* C22, amended: the steps come in order and the call ends in one of three
\* ways: rendered (the file is written, the call returns), failed (it
\* throws), or, when the search found no chunk, returned after the search
\* with nothing grouped or rendered.  A call that found a chunk and returned
\* ended rendered.
C22_RenderedFailedOrEmpty ==
  /\ StepsInOrder
  /\ QueryEnded =>
       \/ /\ g_pc = "returned"
          /\ LastStep = "rendered"
          /\ relevantChunks # <<>>
          /\ \E f \in files : f.path = g_filePath /\ f.content = g_content
       \/ /\ g_pc = "failed"
          /\ LastStep = "failed"
       \/ /\ g_pc = "returned"
          /\ LastStep = "searched"
          /\ relevantChunks = <<>>
          /\ files = {}
  /\ (g_query # NoQuery /\ g_pc \notin {"returned", "failed"}) => LastStep = g_pc

\* A query against a project with stored chunks, none of them similar
\* enough: the call returned after the search.
C22_Witness ==
  /\ QueryEnded
  /\ g_pc = "returned"
  /\ g_steps = <<"received", "embedded", "searched">>
  /\ \E dc \in document_chunks : dc.project_id = g_projectId

\* A query context record is stored for this file.
Recorded(f) ==
  \E kc \in knowledge_contexts :
    /\ kc.file_path = f.path
    /\ kc.content = f.content
    /\ kc.project_id = g_projectId
    /\ kc.title = g_query
    /\ kc.context_type = "query"

\* C23: when the call with a query has thrown, no file is written and no
\* knowledge_contexts record is stored; and every stored record is the record
\* of a written file, with the content of that file.
C23_NoPartialOutput ==
  /\ (g_query # NoQuery /\ g_pc = "failed") => (files = {} /\ knowledge_contexts = {})
  /\ \A kc \in knowledge_contexts :
       /\ g_pc = "returned"
       /\ LastStep = "rendered"
       /\ \E f \in files : f.path = kc.file_path /\ Recorded(f)

\* The search found chunks, they were grouped, and the write of the file
\* failed.
C23_Witness ==
  /\ g_pc = "failed"
  /\ g_steps = <<"received", "embedded", "searched", "grouped", "failed">>
  /\ Len(relevantChunks) >= 2
  /\ groupedChunks # <<>>

\* The file is written and its record stored.
C23_WitnessRecorded ==
  /\ g_pc = "returned"
  /\ knowledge_contexts # {}
  /\ \A f \in files : Recorded(f)

\* The context file is rendered.
Rendered == g_query # NoQuery /\ g_steps # <<>> /\ LastStep = "rendered"

\* The positions in the search result of the chunks of a section.
ResultsOf(section) ==
  {k \in 1..Len(relevantChunks) :
     ToUpperCase(relevantChunks[k].source_type) = section.heading}

\* The n-th of a set of positions, in ascending order.
NthOf(positions, n) ==
  CHOOSE k \in positions : Cardinality({j \in positions : j < k}) = n - 1

First(positions) == NthOf(positions, 1)

\* C24: in the rendered file every section has a heading of its own and
\* holds exactly the search results of its source type, in the order of the
\* search result and numbered 1, 2, ...; every search result is in a
\* section; and the sections come in the order in which their types first
\* occur in the search result.
C24_GroupingKeepsOrder ==
  Rendered =>
    LET sections == g_content.sections
    IN  /\ \A g, h \in 1..Len(sections) :
             sections[g].heading = sections[h].heading => g = h
        /\ \A k \in 1..Len(relevantChunks) :
             \E g \in 1..Len(sections) : k \in ResultsOf(sections[g])
        /\ \A g \in 1..Len(sections) :
             /\ Len(sections[g].sources) = Cardinality(ResultsOf(sections[g]))
             /\ Len(sections[g].sources) > 0
             /\ \A n \in 1..Len(sections[g].sources) :
                  LET shown == sections[g].sources[n]
                      found == relevantChunks[NthOf(ResultsOf(sections[g]), n)]
                  IN  /\ shown.source = n
                      /\ shown.path = PathOrUnknown(found.file_path)
                      /\ shown.content = found.chunk_content
                      /\ shown.similarity = ToFixed1(found.similarity)
        /\ \A g, h \in 1..Len(sections) :
             g < h => First(ResultsOf(sections[g])) < First(ResultsOf(sections[h]))

\* A search result of three source types in which a docs chunk and a config
\* chunk stand between code chunks.
C24_Witness ==
  /\ Rendered
  /\ Len(g_content.sections) = 3
  /\ \E i, j, k, l \in 1..Len(relevantChunks) :
       /\ i < j /\ j < k /\ k < l
       /\ relevantChunks[i].source_type = "code"
       /\ relevantChunks[j].source_type = "docs"
       /\ relevantChunks[k].source_type = "code"
       /\ relevantChunks[l].source_type = "config"

(***************************************************************************)
(* Claims about the code summary (checked under SpecGenerate).             *)
(***************************************************************************)
\* The path ends in the chunk suffix #chunk-<i> of ingestion.
HasChunkSuffix(path) ==
  /\ Len(path) > 3
  /\ path[Len(path) - 2] = "#"
  /\ path[Len(path) - 1] = "chunk-"

\* The file a stored chunk was read from: its path without the chunk suffix.
OriginFile(path) ==
  IF HasChunkSuffix(path) THEN SubSeq(path, 1, Len(path) - 3) ELSE path

\* The ordinal of a stored chunk in its file; the only chunk of a file is
\* its first.
Ordinal(path) == IF HasChunkSuffix(path) THEN path[Len(path)] ELSE 1

CodeChunks == {dc \in ProjectChunks : dc.source_type = "code"}

ChunksOfFile(f) == {dc \in CodeChunks : OriginFile(dc.file_path) = f}

CodeFiles == {OriginFile(dc.file_path) : dc \in CodeChunks}

CodeSummaryWritten == \E f \in files : f.path = <<g_projectId, "code-summary.md", 0>>

CodeSummary ==
  (CHOOSE f \in files : f.path = <<g_projectId, "code-summary.md", 0>>).content

\* C25: once the reports of a project with code chunks are written, the
\* headings of the code summary are the files the project's code chunks were
\* read from, one heading per file, and the chunk count under a heading is
\* the number of stored code chunks of that file.
C25_OneHeadingPerFile ==
  (ReportsWritten /\ CodeChunks # {}) =>
    /\ CodeSummaryWritten
    /\ DOMAIN CodeSummary = CodeFiles
    /\ \A f \in CodeFiles : CodeSummary[f].chunks = Cardinality(ChunksOfFile(f))

\* The stored chunk of the file with the least ordinal.
FirstChunkOf(f) ==
  CHOOSE dc \in ChunksOfFile(f) :
    \A o \in ChunksOfFile(f) : Ordinal(dc.file_path) <= Ordinal(o.file_path)

\* The first 500 characters, with the marker when there are more.
First500(content) ==
  IF content.len > 500
    THEN [text |-> [base |-> content.base, len |-> 500], marker |-> TRUE]
    ELSE [text |-> content, marker |-> FALSE]

\* C26: once the reports of a project with code chunks are written, the code
\* summary shows for every file with a stored code chunk one preview, the
\* first 500 characters of the file's first chunk, with the ellipsis marker
\* exactly when that chunk is longer.
C26_OnePreviewPerFile ==
  (ReportsWritten /\ CodeChunks # {}) =>
    /\ CodeSummaryWritten
    /\ \A f \in CodeFiles :
         /\ f \in DOMAIN CodeSummary
         /\ CodeSummary[f].preview = First500(FirstChunkOf(f).chunk_content)

\* The files whose key in the report is their own path and no other file's.
PlainFiles ==
  {f \in CodeFiles : BeforeHash(f) = f /\ \A o \in CodeFiles : BeforeHash(o) = f => o = f}

\* What holds of the headings and previews: for the files with no '#' in
\* their path.
PlainFilesSummarised ==
  (ReportsWritten /\ CodeChunks # {}) =>
    /\ CodeSummaryWritten
    /\ \A f \in PlainFiles :
         /\ f \in DOMAIN CodeSummary
         /\ CodeSummary[f].chunks = Cardinality(ChunksOfFile(f))
         /\ CodeSummary[f].preview = First500(FirstChunkOf(f).chunk_content)

\* A file of three chunks whose first has 501 characters is summarised
\* beside the two files of lib/c#.
PlainFilesWitness ==
  /\ ReportsWritten
  /\ \E f \in PlainFiles :
       /\ Cardinality(ChunksOfFile(f)) = 3
       /\ CodeSummary[f].preview.marker
       /\ CodeSummary[f].preview.text.len = 500
  /\ Cardinality(CodeFiles \ PlainFiles) = 2

====
